---- MODULE Spec2Model ----
(***************************************************************************)
(* Age-adjusted rule-based pediatric ECG interpretation:                   *)
(*   ml/data/pediatric_normals.py   normal-value table and classifiers     *)
(*   ml/models/rule_baseline.py     measurement extractor, rule engine     *)
(*   ml/models/rule_features.py     30-slot feature vectorizer             *)
(*                                                                         *)
(* Numbers are exact rationals <<n, d>> with d > 0 in lowest terms; an     *)
(* unset Optional field (Python None) is the empty tuple.                  *)
(***************************************************************************)
EXTENDS Integers, Sequences, FiniteSets, TLC

VARIABLES
    pc,             \* position of the caller: which call is pending or has returned
    recording,      \* the signal, its lead labels and what the delineation service answers
    measurements,   \* the ECGMeasurements handed to / returned by a call
    age_days,       \* the age argument
    prediction,     \* the RuleBasedPrediction returned by the rule engine
    features,       \* the RuleFeatures returned by the feature vectorizer
    batch,          \* extract_batch_features: its arguments, output matrix and loop index
    query,          \* a call of a table function: its value and range arguments, its results
    heap,           \* the prediction objects the caller holds and the list objects they refer to
    server          \* ml/serve.py: the module globals, the request under way, the response

vars == <<pc, recording, measurements, age_days, prediction, features, batch, query,
          heap, server>>

---------------------------------------------------------------------------
(* Exact rational arithmetic standing for Python floats.                   *)

None == <<>>

Abs(i) == IF i < 0 THEN -i ELSE i

RECURSIVE GCD(_, _)
GCD(a, b) == IF b = 0 THEN a ELSE GCD(b, a % b)

Frac(n, d) ==
    LET s == IF d < 0 THEN -1 ELSE 1
        g == GCD(Abs(n), Abs(d))
    IN  <<(s * n) \div g, (s * d) \div g>>

Rat(i) == <<i, 1>>
Zero == <<0, 1>>
One == <<1, 1>>
Half == <<1, 2>>

RAdd(a, b) == Frac(a[1] * b[2] + b[1] * a[2], a[2] * b[2])
RSub(a, b) == Frac(a[1] * b[2] - b[1] * a[2], a[2] * b[2])
RMul(a, b) == Frac(a[1] * b[1], a[2] * b[2])
RDiv(a, b) == Frac(a[1] * b[2], a[2] * b[1])
RLt(a, b) == a[1] * b[2] < b[1] * a[2]
RLe(a, b) == a[1] * b[2] <= b[1] * a[2]
RMin(a, b) == IF RLt(b, a) THEN b ELSE a
RMax(a, b) == IF RLt(a, b) THEN b ELSE a
RAbs(a) == <<Abs(a[1]), a[2]>>

\* format spec ":.0f": the nearest integer, ties to even
Fmt0(a) ==
    LET q == a[1] \div a[2]
        r2 == 2 * (a[1] - q * a[2])
    IN  IF r2 < a[2] THEN q
        ELSE IF r2 > a[2] THEN q + 1
        ELSE IF q % 2 = 0 THEN q ELSE q + 1

---------------------------------------------------------------------------
(* Python floats where rounding decides: IEEE 754 binary64, round to       *)
(* nearest, ties to even.  A natural number of any size is the sequence of *)
(* its digits in base 2^15, lowest first, without leading zero digits; a   *)
(* float is [s, m, e] standing for s * m * 2^e with s in {-1, 0, 1} and m  *)
(* a natural number of at most 53 bits (54 after a carry: 2^53 exactly).   *)

RECURSIVE Pow2(_)
Pow2(k) == IF k = 0 THEN 1 ELSE 2 * Pow2(k - 1)

Limb == Pow2(15)

RECURSIVE BitLen(_)
BitLen(n) == IF n = 0 THEN 0 ELSE 1 + BitLen(n \div 2)

RECURSIVE BTrim(_)
BTrim(a) == IF Len(a) > 0 /\ a[Len(a)] = 0 THEN BTrim(SubSeq(a, 1, Len(a) - 1)) ELSE a

RECURSIVE BNat(_)
BNat(n) == IF n = 0 THEN <<>> ELSE <<n % Limb>> \o BNat(n \div Limb)

Digit(a) == IF Len(a) > 0 THEN a[1] ELSE 0
Rest(a) == IF Len(a) > 0 THEN Tail(a) ELSE a

\* a + b + c, digit by digit; x is the sum of the lowest digits and the carry
RECURSIVE BAddC(_, _, _)
AddDigit(a, b, x) == <<x % Limb>> \o BAddC(Rest(a), Rest(b), x \div Limb)
BAddC(a, b, c) ==
    IF Len(a) = 0 /\ Len(b) = 0 THEN BNat(c)
    ELSE AddDigit(a, b, Digit(a) + Digit(b) + c)

\* a - b - borrow for a >= b, digit by digit
RECURSIVE BSubB(_, _, _)
SubDigit(a, b, x) ==
    <<(x + Limb) % Limb>> \o BSubB(Tail(a), Rest(b), IF x < 0 THEN 1 ELSE 0)
BSubB(a, b, borrow) ==
    IF Len(a) = 0 THEN <<>> ELSE SubDigit(a, b, a[1] - Digit(b) - borrow)

\* -1, 0, 1 as a is below, equal to, above b
RECURSIVE BCmp(_, _)
BCmp(a, b) ==
    IF Len(a) # Len(b) THEN (IF Len(a) < Len(b) THEN -1 ELSE 1)
    ELSE IF Len(a) = 0 THEN 0
    ELSE IF a[Len(a)] # b[Len(b)] THEN (IF a[Len(a)] < b[Len(b)] THEN -1 ELSE 1)
    ELSE BCmp(SubSeq(a, 1, Len(a) - 1), SubSeq(b, 1, Len(b) - 1))

\* the larger less the smaller
BDiff(a, b, cmp) == BTrim(IF cmp >= 0 THEN BSubB(a, b, 0) ELSE BSubB(b, a, 0))

\* a * k + c for a digit k
RECURSIVE BMulSmall(_, _, _)
BMulSmall(a, k, c) ==
    IF Len(a) = 0 THEN BNat(c)
    ELSE <<(a[1] * k + c) % Limb>> \o BMulSmall(Tail(a), k, (a[1] * k + c) \div Limb)

RECURSIVE BMul(_, _)
BMul(a, b) ==
    IF Len(b) = 0 \/ Len(a) = 0 THEN <<>>
    ELSE BTrim(BAddC(BMulSmall(a, b[1], 0), <<0>> \o BMul(a, Tail(b)), 0))

\* a * 2^k
BShl(a, k) ==
    IF Len(a) = 0 THEN a
    ELSE [i \in 1..(k \div 15) |-> 0] \o BMulSmall(a, Pow2(k % 15), 0)

\* quotient and remainder of a by a divisor k below 2^15, from the top digit down
DivDigit(hi, x, k) == [q |-> BTrim(<<x \div k>> \o hi.q), r |-> x % k]

DivStep(hi, digit, k) == DivDigit(hi, hi.r * Limb + digit, k)

RECURSIVE BDivSmall(_, _)
BDivSmall(a, k) ==
    IF Len(a) = 0 THEN [q |-> <<>>, r |-> 0]
    ELSE DivStep(BDivSmall(Tail(a), k), a[1], k)

BBits(a) == IF Len(a) = 0 THEN 0 ELSE 15 * (Len(a) - 1) + BitLen(a[Len(a)])

\* floor(a / 2^k)
BShr(a, k) ==
    IF k \div 15 >= Len(a) THEN <<>>
    ELSE BDivSmall(SubSeq(a, k \div 15 + 1, Len(a)), Pow2(k % 15)).q

\* q, or q + 1 when the part cut off is above a half (cmp = 1) or is a half
\* (cmp = 0) and q is odd
TiesToEven(q, cmp) ==
    IF cmp = 1 \/ (cmp = 0 /\ Digit(q) % 2 = 1) THEN BAddC(q, <<>>, 1) ELSE q

\* a / 2^k rounded to the nearest, q being floor(a / 2^k)
RoundedShr(a, q, k) ==
    TiesToEven(q, BCmp(BTrim(BSubB(a, BShl(q, k), 0)), BShl(<<1>>, k - 1)))

F64Zero == [s |-> 0, m |-> <<>>, e |-> 0]

\* s * a * 2^e with the lowest k bits of a rounded away
Round53(s, a, e, k) ==
    IF k <= 0 THEN [s |-> s, m |-> a, e |-> e]
    ELSE [s |-> s, m |-> RoundedShr(a, BShr(a, k), k), e |-> e + k]

\* the float nearest to s * a * 2^e
F64Round(s, a, e) ==
    IF Len(a) = 0 THEN F64Zero ELSE Round53(s, a, e, BBits(a) - 53)

\* a quotient with one more bit that is set when the division left a remainder
Sticky(d) == BAddC(BShl(d.q, 1), <<>>, IF d.r = 0 THEN 0 ELSE 1)

\* the float a rational stands for: the nearest one, as float("0.6") is
F64(x) ==
    IF x[1] = 0 THEN F64Zero
    ELSE F64Round(IF x[1] < 0 THEN -1 ELSE 1,
                  Sticky(BDivSmall(BShl(BNat(Abs(x[1])), 75), x[2])), -76)

F64Neg(a) == [a EXCEPT !.s = -@]

\* the sum of s * a * 2^e and t * b * 2^e, cmp comparing a with b
AddAligned(s, a, t, b, e, cmp) ==
    F64Round(IF s = t \/ cmp >= 0 THEN s ELSE t,
             IF s = t THEN BAddC(a, b, 0) ELSE BDiff(a, b, cmp), e)

\* a + b with both brought to the exponent e, the lower of the two
AddAt(a, b, e) ==
    AddAligned(a.s, BShl(a.m, a.e - e), b.s, BShl(b.m, b.e - e), e,
               BCmp(BShl(a.m, a.e - e), BShl(b.m, b.e - e)))

F64Add(a, b) == AddAt(a, b, IF a.e <= b.e THEN a.e ELSE b.e)

F64Sub(a, b) == F64Add(a, F64Neg(b))

F64Mul(a, b) == F64Round(a.s * b.s, BMul(a.m, b.m), a.e + b.e)

\* a < b: the difference is negative (rounding keeps its sign)
F64Lt(a, b) == F64Sub(a, b).s = -1


---------------------------------------------------------------------------
(* ml/data/pediatric_normals.py                                            *)

NR(a, b, c) == [p2 |-> Rat(a), p50 |-> Rat(b), p98 |-> Rat(c)]
NRd(a, b, c, d) == [p2 |-> Frac(a, d), p50 |-> Frac(b, d), p98 |-> Frac(c, d)]

AGE_GROUP_BOUNDS == <<
    <<"neonate_0_24h", 0, 1>>,
    <<"neonate_1_3d", 1, 3>>,
    <<"neonate_3_7d", 3, 7>>,
    <<"neonate_8_30d", 8, 30>>,
    <<"infant_1_3mo", 31, 90>>,
    <<"infant_3_6mo", 91, 180>>,
    <<"infant_6_12mo", 181, 365>>,
    <<"toddler_1_3yr", 366, 1095>>,
    <<"child_3_5yr", 1096, 1825>>,
    <<"child_5_8yr", 1826, 2920>>,
    <<"child_8_12yr", 2921, 4380>>,
    <<"adolescent_12_16yr", 4381, 5840>>,
    <<"adolescent_16_18yr", 5841, 6570>> >>

PEDIATRIC_NORMALS == [
    neonate_0_24h |-> [
        heart_rate |-> NR(90, 145, 180),
        pr_interval |-> NR(70, 100, 140),
        qrs_duration |-> NR(40, 60, 80),
        qtc_bazett |-> NR(370, 420, 470),
        qrs_axis |-> NR(60, 135, 195),
        r_wave_v1 |-> NR(5, 15, 27),
        s_wave_v1 |-> NR(0, 5, 15),
        r_wave_v6 |-> NR(0, 4, 12),
        s_wave_v6 |-> NR(0, 4, 10),
        rs_ratio_v1 |-> NRd(50, 300, 1900, 100),
        rs_ratio_v6 |-> NRd(10, 100, 400, 100) ],
    neonate_1_3d |-> [
        heart_rate |-> NR(90, 140, 175),
        pr_interval |-> NR(70, 100, 140),
        qrs_duration |-> NR(40, 60, 80),
        qtc_bazett |-> NR(370, 420, 470),
        qrs_axis |-> NR(65, 125, 185),
        r_wave_v1 |-> NR(5, 13, 25),
        s_wave_v1 |-> NR(0, 5, 15),
        r_wave_v6 |-> NR(1, 5, 13),
        s_wave_v6 |-> NR(0, 3, 10),
        rs_ratio_v1 |-> NRd(50, 250, 1500, 100),
        rs_ratio_v6 |-> NRd(20, 150, 500, 100) ],
    neonate_3_7d |-> [
        heart_rate |-> NR(90, 140, 175),
        pr_interval |-> NR(70, 100, 140),
        qrs_duration |-> NR(40, 60, 80),
        qtc_bazett |-> NR(370, 420, 470),
        qrs_axis |-> NR(65, 125, 185),
        r_wave_v1 |-> NR(5, 13, 25),
        s_wave_v1 |-> NR(0, 5, 15),
        r_wave_v6 |-> NR(1, 5, 13),
        s_wave_v6 |-> NR(0, 3, 10),
        rs_ratio_v1 |-> NRd(50, 250, 1500, 100),
        rs_ratio_v6 |-> NRd(20, 150, 500, 100) ],
    neonate_8_30d |-> [
        heart_rate |-> NR(100, 150, 190),
        pr_interval |-> NR(70, 100, 140),
        qrs_duration |-> NR(40, 60, 80),
        qtc_bazett |-> NR(370, 410, 460),
        qrs_axis |-> NR(45, 110, 170),
        r_wave_v1 |-> NR(3, 10, 22),
        s_wave_v1 |-> NR(0, 5, 15),
        r_wave_v6 |-> NR(3, 8, 17),
        s_wave_v6 |-> NR(0, 3, 10),
        rs_ratio_v1 |-> NRd(30, 200, 1000, 100),
        rs_ratio_v6 |-> NRd(50, 250, 800, 100) ],
    infant_1_3mo |-> [
        heart_rate |-> NR(105, 150, 185),
        pr_interval |-> NR(70, 100, 145),
        qrs_duration |-> NR(40, 60, 80),
        qtc_bazett |-> NR(370, 410, 460),
        qrs_axis |-> NR(30, 80, 135),
        r_wave_v1 |-> NR(3, 9, 20),
        s_wave_v1 |-> NR(1, 6, 17),
        r_wave_v6 |-> NR(5, 12, 22),
        s_wave_v6 |-> NR(0, 3, 10),
        rs_ratio_v1 |-> NRd(20, 150, 600, 100),
        rs_ratio_v6 |-> NR(1, 4, 12) ],
    infant_3_6mo |-> [
        heart_rate |-> NR(105, 145, 180),
        pr_interval |-> NR(70, 105, 150),
        qrs_duration |-> NR(40, 60, 85),
        qtc_bazett |-> NR(370, 410, 455),
        qrs_axis |-> NR(20, 65, 115),
        r_wave_v1 |-> NR(3, 9, 20),
        s_wave_v1 |-> NR(1, 7, 18),
        r_wave_v6 |-> NR(6, 13, 23),
        s_wave_v6 |-> NR(0, 3, 10),
        rs_ratio_v1 |-> NRd(20, 120, 500, 100),
        rs_ratio_v6 |-> NRd(150, 450, 1500, 100) ],
    infant_6_12mo |-> [
        heart_rate |-> NR(95, 135, 170),
        pr_interval |-> NR(75, 110, 155),
        qrs_duration |-> NR(45, 65, 85),
        qtc_bazett |-> NR(370, 410, 450),
        qrs_axis |-> NR(10, 55, 105),
        r_wave_v1 |-> NR(2, 8, 18),
        s_wave_v1 |-> NR(2, 8, 20),
        r_wave_v6 |-> NR(7, 14, 24),
        s_wave_v6 |-> NR(0, 3, 9),
        rs_ratio_v1 |-> NRd(10, 100, 400, 100),
        rs_ratio_v6 |-> NR(2, 5, 18) ],
    toddler_1_3yr |-> [
        heart_rate |-> NR(80, 120, 155),
        pr_interval |-> NR(80, 115, 160),
        qrs_duration |-> NR(45, 65, 85),
        qtc_bazett |-> NR(370, 405, 445),
        qrs_axis |-> NR(10, 55, 100),
        r_wave_v1 |-> NR(2, 7, 15),
        s_wave_v1 |-> NR(3, 10, 22),
        r_wave_v6 |-> NR(8, 15, 25),
        s_wave_v6 |-> NR(0, 2, 7),
        rs_ratio_v1 |-> NRd(10, 70, 300, 100),
        rs_ratio_v6 |-> NRd(250, 700, 2500, 100) ],
    child_3_5yr |-> [
        heart_rate |-> NR(70, 105, 140),
        pr_interval |-> NR(85, 120, 165),
        qrs_duration |-> NR(50, 70, 90),
        qtc_bazett |-> NR(370, 405, 445),
        qrs_axis |-> NR(10, 55, 100),
        r_wave_v1 |-> NR(2, 6, 14),
        s_wave_v1 |-> NR(4, 12, 24),
        r_wave_v6 |-> NR(9, 17, 27),
        s_wave_v6 |-> NR(0, 2, 6),
        rs_ratio_v1 |-> NRd(5, 50, 200, 100),
        rs_ratio_v6 |-> NR(3, 9, 30) ],
    child_5_8yr |-> [
        heart_rate |-> NR(60, 95, 125),
        pr_interval |-> NR(90, 125, 170),
        qrs_duration |-> NR(55, 75, 95),
        qtc_bazett |-> NR(370, 400, 440),
        qrs_axis |-> NR(5, 55, 100),
        r_wave_v1 |-> NR(1, 5, 12),
        s_wave_v1 |-> NR(5, 13, 25),
        r_wave_v6 |-> NR(10, 18, 28),
        s_wave_v6 |-> NR(0, 2, 5),
        rs_ratio_v1 |-> NRd(3, 40, 150, 100),
        rs_ratio_v6 |-> NRd(350, 1000, 3500, 100) ],
    child_8_12yr |-> [
        heart_rate |-> NR(55, 85, 115),
        pr_interval |-> NR(95, 130, 175),
        qrs_duration |-> NR(55, 80, 100),
        qtc_bazett |-> NR(370, 400, 440),
        qrs_axis |-> NR(0, 55, 95),
        r_wave_v1 |-> NR(1, 4, 10),
        s_wave_v1 |-> NR(5, 13, 25),
        r_wave_v6 |-> NR(10, 19, 30),
        s_wave_v6 |-> NR(0, 2, 5),
        rs_ratio_v1 |-> NRd(2, 30, 120, 100),
        rs_ratio_v6 |-> NR(4, 12, 40) ],
    adolescent_12_16yr |-> [
        heart_rate |-> NR(50, 75, 105),
        pr_interval |-> NR(100, 140, 185),
        qrs_duration |-> NR(60, 85, 105),
        qtc_bazett |-> NR(370, 400, 440),
        qrs_axis |-> NR(-5, 55, 95),
        r_wave_v1 |-> NR(0, 3, 9),
        s_wave_v1 |-> NR(4, 12, 24),
        r_wave_v6 |-> NR(9, 18, 30),
        s_wave_v6 |-> NR(0, 2, 5),
        rs_ratio_v1 |-> NRd(1, 25, 100, 100),
        rs_ratio_v6 |-> NR(4, 12, 45) ],
    adolescent_16_18yr |-> [
        heart_rate |-> NR(50, 70, 100),
        pr_interval |-> NR(110, 150, 200),
        qrs_duration |-> NR(65, 90, 110),
        qtc_bazett |-> NR(370, 400, 440),
        qrs_axis |-> NR(-15, 50, 90),
        r_wave_v1 |-> NR(0, 3, 8),
        s_wave_v1 |-> NR(3, 10, 22),
        r_wave_v6 |-> NR(8, 16, 28),
        s_wave_v6 |-> NR(0, 2, 5),
        rs_ratio_v1 |-> NRd(1, 30, 100, 100),
        rs_ratio_v6 |-> NR(4, 10, 35) ] ]

\* the first bucket, in table order, whose [min_days, max_days] holds the age
RECURSIVE ScanAgeGroups(_, _)
ScanAgeGroups(age, k) ==
    IF k > Len(AGE_GROUP_BOUNDS) THEN "adolescent_16_18yr"
    ELSE IF AGE_GROUP_BOUNDS[k][2] <= age /\ age <= AGE_GROUP_BOUNDS[k][3]
         THEN AGE_GROUP_BOUNDS[k][1]
         ELSE ScanAgeGroups(age, k + 1)

get_age_group_last_match(age) ==
    LET holding == {k \in 1..Len(AGE_GROUP_BOUNDS) :
                       AGE_GROUP_BOUNDS[k][2] <= age /\ age <= AGE_GROUP_BOUNDS[k][3]}
    IN  IF holding = {} THEN "adolescent_16_18yr"
        ELSE AGE_GROUP_BOUNDS[CHOOSE k \in holding : \A j \in holding : j <= k][1]

get_age_group(age) == ScanAgeGroups(age, 1)

\* PEDIATRIC_NORMALS is a module-level dict: the lookup reads the table as the
\* process holds it now, and returns the AgeNormals object of the table itself
get_normals_for_age(age) == heap.table[get_age_group(age)]

classify_value_inclusive(value, normal_range) ==
    IF RLe(value, normal_range.p2) THEN "low"
    ELSE IF RLe(normal_range.p98, value) THEN "high"
    ELSE "normal"

classify_value_without_zones(value, normal_range) ==
    IF RLt(value, normal_range.p2) THEN "low"
    ELSE IF RLt(normal_range.p98, value) THEN "high"
    ELSE "normal"

classify_value_limit_relative(value, normal_range) ==
    IF RLt(value, normal_range.p2) THEN "low"
    ELSE IF RLt(normal_range.p98, value) THEN "high"
    ELSE IF RLt(value, RAdd(normal_range.p2, RMul(normal_range.p2, Frac(1, 10))))
        THEN "borderline_low"
    ELSE IF RLt(RSub(normal_range.p98, RMul(normal_range.p98, Frac(1, 10))), value)
        THEN "borderline_high"
    ELSE "normal"

\* classify_value(value, normal_range): the limits are compared as given, the
\* zone edges are computed in floats (range_width * 0.1, p2 + borderline_width)
range_width(normal_range) == F64Sub(F64(normal_range.p98), F64(normal_range.p2))

borderline_width(normal_range) == F64Mul(range_width(normal_range), F64(Frac(1, 10)))

\* the two tests of the borderline zones, on floats
Zone(value, p2, p98, width) ==
    IF F64Lt(value, F64Add(p2, width)) THEN "borderline_low"
    ELSE IF F64Lt(F64Sub(p98, width), value) THEN "borderline_high"
    ELSE "normal"

classify_value(value, normal_range) ==
    IF RLt(value, normal_range.p2) THEN "low"
    ELSE IF RLt(normal_range.p98, value) THEN "high"
    ELSE Zone(F64(value), F64(normal_range.p2), F64(normal_range.p98),
              borderline_width(normal_range))

\* estimate_percentile(value, normal_range)
estimate_percentile(value, normal_range) ==
    LET p2 == normal_range.p2
        p50 == normal_range.p50
        p98 == normal_range.p98
    IN  IF RLe(value, p2)
            THEN RMax(Zero, RMul(IF p2 # Zero THEN RDiv(value, p2) ELSE Zero, Rat(2)))
        ELSE IF RLe(p98, value)
            THEN RMin(Rat(100),
                      RAdd(Rat(98),
                           RMul(IF RSub(p98, p50) # Zero
                                THEN RDiv(RSub(value, p98), RSub(p98, p50)) ELSE Zero,
                                Rat(2))))
        ELSE IF RLe(value, p50)
            THEN RAdd(Rat(2),
                      RMul(IF RSub(p50, p2) # Zero
                           THEN RDiv(RSub(value, p2), RSub(p50, p2)) ELSE Half,
                           Rat(48)))
        ELSE RAdd(Rat(50),
                  RMul(IF RSub(p98, p50) # Zero
                       THEN RDiv(RSub(value, p50), RSub(p98, p50)) ELSE Half,
                       Rat(48)))

---------------------------------------------------------------------------
(* ml/models/rule_baseline.py: records                                     *)

\* ECGMeasurements(): every Optional field unset, quality 0, not successful
ECGMeasurements == [
    heart_rate |-> None, rr_interval |-> None, pr_interval |-> None,
    qrs_duration |-> None, qt_interval |-> None, qtc_bazett |-> None,
    qrs_axis |-> None,
    r_wave_v1 |-> None, s_wave_v1 |-> None,
    r_wave_v6 |-> None, s_wave_v6 |-> None,
    quality_score |-> Zero,
    extraction_success |-> FALSE,
    error_message |-> "" ]

\* RuleBasedPrediction(): all flags false, all scores 0.0, a fresh empty list
RuleBasedPrediction == [
    is_abnormal |-> FALSE,
    has_tachycardia |-> FALSE, has_bradycardia |-> FALSE,
    has_axis_deviation |-> FALSE, has_prolonged_qtc |-> FALSE,
    has_short_pr |-> FALSE, has_prolonged_pr |-> FALSE,
    has_wide_qrs |-> FALSE, has_rvh |-> FALSE, has_lvh |-> FALSE,
    abnormal_score |-> Zero,
    tachycardia_score |-> Zero, bradycardia_score |-> Zero,
    axis_deviation_score |-> Zero, qtc_prolongation_score |-> Zero,
    conduction_abnormality_score |-> Zero, hypertrophy_score |-> Zero,
    findings |-> <<>> ]

---------------------------------------------------------------------------
(* apply_rule_based_classification, one operator per section of the body;  *)
(* p is the prediction built so far, m the measurements, n the AgeNormals. *)
(* A finding string is the tuple of its text and its formatted arguments.  *)

HeartRateAnalysisNoClamp(p, m, n) ==
    IF m.heart_rate = None THEN p
    ELSE LET hr_class == classify_value(m.heart_rate, n.heart_rate) IN
         IF hr_class = "high" THEN
             LET excess == RDiv(RSub(m.heart_rate, n.heart_rate.p98), n.heart_rate.p98)
             IN  [p EXCEPT !.has_tachycardia = TRUE,
                           !.tachycardia_score = RAdd(Half, excess),
                           !.findings = Append(@, <<"Tachycardia", Fmt0(m.heart_rate),
                                                    n.heart_rate.p98>>)]
         ELSE IF hr_class = "low" THEN
             LET deficit == RDiv(RSub(n.heart_rate.p2, m.heart_rate), n.heart_rate.p2)
             IN  [p EXCEPT !.has_bradycardia = TRUE,
                           !.bradycardia_score = RAdd(Half, deficit),
                           !.findings = Append(@, <<"Bradycardia", Fmt0(m.heart_rate),
                                                    n.heart_rate.p2>>)]
         ELSE p

HeartRateAnalysis(p, m, n) ==
    IF m.heart_rate = None THEN p
    ELSE LET hr_class == classify_value(m.heart_rate, n.heart_rate) IN
         IF hr_class = "high" THEN
             LET excess == RDiv(RSub(m.heart_rate, n.heart_rate.p98), n.heart_rate.p98)
             IN  [p EXCEPT !.has_tachycardia = TRUE,
                           !.tachycardia_score = RMin(RAdd(Half, excess), One),
                           !.findings = Append(@, <<"Tachycardia", Fmt0(m.heart_rate),
                                                    n.heart_rate.p98>>)]
         ELSE IF hr_class = "low" THEN
             LET deficit == RDiv(RSub(n.heart_rate.p2, m.heart_rate), n.heart_rate.p2)
             IN  [p EXCEPT !.has_bradycardia = TRUE,
                           !.bradycardia_score = RMin(RAdd(Half, deficit), One),
                           !.findings = Append(@, <<"Bradycardia", Fmt0(m.heart_rate),
                                                    n.heart_rate.p2>>)]
         ELSE p

QRSAxisAnalysisAgeOnly(p, m, n) ==
    IF m.qrs_axis = None THEN p
    ELSE LET axis_class == classify_value(m.qrs_axis, n.qrs_axis)
             deviation == RAbs(RSub(m.qrs_axis, n.qrs_axis.p50))
             normal_range == RSub(n.qrs_axis.p98, n.qrs_axis.p2)
         IN  IF axis_class \in {"high", "low"}
             THEN [p EXCEPT
                     !.has_axis_deviation = TRUE,
                     !.findings = Append(@,
                         IF axis_class = "low"
                         THEN <<"Left axis deviation", Fmt0(m.qrs_axis), n.qrs_axis.p2>>
                         ELSE <<"Right axis deviation", Fmt0(m.qrs_axis), n.qrs_axis.p98>>),
                     !.axis_deviation_score = RMin(RDiv(deviation, normal_range), One)]
             ELSE p

QRSAxisAnalysis(p, m, n) ==
    IF m.qrs_axis = None THEN p
    ELSE LET axis_class == classify_value(m.qrs_axis, n.qrs_axis)
             deviation == RAbs(RSub(m.qrs_axis, n.qrs_axis.p50))
             normal_range == RSub(n.qrs_axis.p98, n.qrs_axis.p2)
             p1 == IF axis_class \in {"high", "low"}
                   THEN [p EXCEPT
                           !.has_axis_deviation = TRUE,
                           !.findings = Append(@,
                               IF axis_class = "low"
                               THEN <<"Left axis deviation", Fmt0(m.qrs_axis), n.qrs_axis.p2>>
                               ELSE <<"Right axis deviation", Fmt0(m.qrs_axis), n.qrs_axis.p98>>),
                           !.axis_deviation_score = RMin(RDiv(deviation, normal_range), One)]
                   ELSE p
         IN  \* Extreme axis deviation
             IF RLt(m.qrs_axis, Rat(-90)) \/ RLt(Rat(180), m.qrs_axis)
             THEN [p1 EXCEPT !.has_axis_deviation = TRUE,
                             !.axis_deviation_score = One,
                             !.findings = Append(@, <<"Extreme axis deviation",
                                                      Fmt0(m.qrs_axis)>>)]
             ELSE p1

QTcAnalysisTiersSwapped(p, m, n) ==
    IF m.qtc_bazett = None THEN p
    ELSE LET qtc == m.qtc_bazett
             qtc_class == classify_value(qtc, n.qtc_bazett)
         IN  IF RLt(Rat(450), qtc) \/ qtc_class = "high" THEN
                 [p EXCEPT !.has_prolonged_qtc = TRUE,
                           !.qtc_prolongation_score = Half,
                           !.findings = Append(@, <<"Borderline prolonged QTc", Fmt0(qtc)>>)]
             ELSE IF RLt(Rat(470), qtc) THEN
                 [p EXCEPT !.has_prolonged_qtc = TRUE,
                           !.qtc_prolongation_score = Frac(8, 10),
                           !.findings = Append(@, <<"Prolonged QTc", Fmt0(qtc)>>)]
             ELSE IF RLt(Rat(500), qtc) THEN
                 [p EXCEPT !.has_prolonged_qtc = TRUE,
                           !.qtc_prolongation_score = One,
                           !.findings = Append(@, <<"Critically prolonged QTc", Fmt0(qtc)>>)]
             ELSE IF RLt(qtc, Rat(340)) THEN
                 [p EXCEPT !.findings = Append(@, <<"Short QTc", Fmt0(qtc)>>)]
             ELSE p

QTcAnalysisShortFlagged(p, m, n) ==
    IF m.qtc_bazett = None THEN p
    ELSE LET qtc == m.qtc_bazett
             qtc_class == classify_value(qtc, n.qtc_bazett)
         IN  IF RLt(Rat(500), qtc) THEN
                 [p EXCEPT !.has_prolonged_qtc = TRUE,
                           !.qtc_prolongation_score = One,
                           !.findings = Append(@, <<"Critically prolonged QTc", Fmt0(qtc)>>)]
             ELSE IF RLt(Rat(470), qtc) THEN
                 [p EXCEPT !.has_prolonged_qtc = TRUE,
                           !.qtc_prolongation_score = Frac(8, 10),
                           !.findings = Append(@, <<"Prolonged QTc", Fmt0(qtc)>>)]
             ELSE IF RLt(Rat(450), qtc) \/ qtc_class = "high" THEN
                 [p EXCEPT !.has_prolonged_qtc = TRUE,
                           !.qtc_prolongation_score = Half,
                           !.findings = Append(@, <<"Borderline prolonged QTc", Fmt0(qtc)>>)]
             ELSE IF RLt(qtc, Rat(340)) THEN
                 [p EXCEPT !.has_prolonged_qtc = TRUE,
                           !.findings = Append(@, <<"Short QTc", Fmt0(qtc)>>)]
             ELSE p

QTcAnalysis(p, m, n) ==
    IF m.qtc_bazett = None THEN p
    ELSE LET qtc == m.qtc_bazett
             qtc_class == classify_value(qtc, n.qtc_bazett)
         IN  \* Critical thresholds (absolute, not age-adjusted)
             IF RLt(Rat(500), qtc) THEN
                 [p EXCEPT !.has_prolonged_qtc = TRUE,
                           !.qtc_prolongation_score = One,
                           !.findings = Append(@, <<"Critically prolonged QTc", Fmt0(qtc)>>)]
             ELSE IF RLt(Rat(470), qtc) THEN
                 [p EXCEPT !.has_prolonged_qtc = TRUE,
                           !.qtc_prolongation_score = Frac(8, 10),
                           !.findings = Append(@, <<"Prolonged QTc", Fmt0(qtc)>>)]
             ELSE IF RLt(Rat(450), qtc) \/ qtc_class = "high" THEN
                 [p EXCEPT !.has_prolonged_qtc = TRUE,
                           !.qtc_prolongation_score = Half,
                           !.findings = Append(@, <<"Borderline prolonged QTc", Fmt0(qtc)>>)]
             ELSE IF RLt(qtc, Rat(340)) THEN
                 [p EXCEPT !.findings = Append(@, <<"Short QTc", Fmt0(qtc)>>)]
             ELSE p

PRIntervalAnalysisInclusiveBands(p, m, n, age) ==
    IF m.pr_interval = None THEN p
    ELSE LET pr == m.pr_interval
             pr_class == classify_value(pr, n.pr_interval)
             short_pr_threshold == IF age <= 365 THEN 100
                                   ELSE IF age <= 2920 THEN 110 ELSE 120
         IN  IF RLt(pr, Rat(short_pr_threshold)) THEN
                 [p EXCEPT !.has_short_pr = TRUE,
                           !.conduction_abnormality_score = RMax(@, Frac(6, 10)),
                           !.findings = Append(@, <<"Short PR interval", Fmt0(pr)>>)]
             ELSE IF RLt(Rat(200), pr) THEN
                 [p EXCEPT !.has_prolonged_pr = TRUE,
                           !.conduction_abnormality_score = RMax(@, Frac(7, 10)),
                           !.findings = Append(@, <<"First-degree AV block", Fmt0(pr)>>)]
             ELSE IF pr_class = "high" THEN
                 [p EXCEPT !.has_prolonged_pr = TRUE,
                           !.conduction_abnormality_score = RMax(@, Half),
                           !.findings = Append(@, <<"Borderline prolonged PR", Fmt0(pr)>>)]
             ELSE p

PRIntervalAnalysis(p, m, n, age) ==
    IF m.pr_interval = None THEN p
    ELSE LET pr == m.pr_interval
             pr_class == classify_value(pr, n.pr_interval)
             short_pr_threshold == IF age < 365 THEN 100
                                   ELSE IF age < 2920 THEN 110 ELSE 120
         IN  IF RLt(pr, Rat(short_pr_threshold)) THEN
                 [p EXCEPT !.has_short_pr = TRUE,
                           !.conduction_abnormality_score = RMax(@, Frac(6, 10)),
                           !.findings = Append(@, <<"Short PR interval", Fmt0(pr)>>)]
             ELSE IF RLt(Rat(200), pr) THEN
                 [p EXCEPT !.has_prolonged_pr = TRUE,
                           !.conduction_abnormality_score = RMax(@, Frac(7, 10)),
                           !.findings = Append(@, <<"First-degree AV block", Fmt0(pr)>>)]
             ELSE IF pr_class = "high" THEN
                 [p EXCEPT !.has_prolonged_pr = TRUE,
                           !.conduction_abnormality_score = RMax(@, Half),
                           !.findings = Append(@, <<"Borderline prolonged PR", Fmt0(pr)>>)]
             ELSE p

QRSDurationAnalysisSummed(p, m, age) ==
    IF m.qrs_duration = None THEN p
    ELSE LET qrs == m.qrs_duration
             wide_qrs_threshold == IF age < 365 THEN 100
                                   ELSE IF age < 2920 THEN 110 ELSE 120
         IN  IF RLt(Rat(wide_qrs_threshold), qrs) THEN
                 [p EXCEPT !.has_wide_qrs = TRUE,
                           !.conduction_abnormality_score = RAdd(@, Frac(7, 10)),
                           !.findings = Append(@, <<"Wide QRS", Fmt0(qrs)>>)]
             ELSE p

QRSDurationAnalysis(p, m, age) ==
    IF m.qrs_duration = None THEN p
    ELSE LET qrs == m.qrs_duration
             wide_qrs_threshold == IF age < 365 THEN 100
                                   ELSE IF age < 2920 THEN 110 ELSE 120
         IN  IF RLt(Rat(wide_qrs_threshold), qrs) THEN
                 [p EXCEPT !.has_wide_qrs = TRUE,
                           !.conduction_abnormality_score = RMax(@, Frac(7, 10)),
                           !.findings = Append(@, <<"Wide QRS", Fmt0(qrs)>>)]
             ELSE p

\* one voltage criterion: the amplitude is set and exceeds the age p98
Criterion(amp, range) == IF amp # None /\ RLt(range.p98, amp) THEN 1 ELSE 0

rvh_criteria(m, n) == Criterion(m.r_wave_v1, n.r_wave_v1) + Criterion(m.s_wave_v6, n.s_wave_v6)
lvh_criteria(m, n) == Criterion(m.r_wave_v6, n.r_wave_v6) + Criterion(m.s_wave_v1, n.s_wave_v1)

\* 0.6 + 0.2 * k and 0.5 + 0.2 * k
PatternScore(k) == RAdd(Frac(6, 10), RMul(Frac(2, 10), Rat(k)))
VoltageScore(k) == RAdd(Frac(5, 10), RMul(Frac(2, 10), Rat(k)))

HypertrophyAnalysisAnyDirection(p, m, n) ==
    LET rvh == rvh_criteria(m, n)
        lvh == lvh_criteria(m, n)
        p1 == IF rvh >= 1 /\ p.has_axis_deviation THEN
                  [p EXCEPT !.has_rvh = TRUE,
                            !.hypertrophy_score = RMax(@, PatternScore(rvh)),
                            !.findings = Append(@, <<"RVH pattern", rvh>>)]
              ELSE IF rvh >= 2 THEN
                  [p EXCEPT !.has_rvh = TRUE,
                            !.hypertrophy_score = RMax(@, VoltageScore(rvh)),
                            !.findings = Append(@, <<"RVH by voltage", rvh>>)]
              ELSE p
    IN  IF lvh >= 1 /\ p1.has_axis_deviation THEN
            [p1 EXCEPT !.has_lvh = TRUE,
                       !.hypertrophy_score = RMax(@, PatternScore(lvh)),
                       !.findings = Append(@, <<"LVH pattern", lvh>>)]
        ELSE IF lvh >= 2 THEN
            [p1 EXCEPT !.has_lvh = TRUE,
                       !.hypertrophy_score = RMax(@, VoltageScore(lvh)),
                       !.findings = Append(@, <<"LVH by voltage", lvh>>)]
        ELSE p1

HypertrophyAnalysis(p, m, n) ==
    LET rvh == rvh_criteria(m, n)
        lvh == lvh_criteria(m, n)
        p1 == IF rvh >= 1 /\ p.has_axis_deviation /\ RLt(n.qrs_axis.p50, m.qrs_axis) THEN
                  [p EXCEPT !.has_rvh = TRUE,
                            !.hypertrophy_score = RMax(@, PatternScore(rvh)),
                            !.findings = Append(@, <<"RVH pattern", rvh>>)]
              ELSE IF rvh >= 2 THEN
                  [p EXCEPT !.has_rvh = TRUE,
                            !.hypertrophy_score = RMax(@, VoltageScore(rvh)),
                            !.findings = Append(@, <<"RVH by voltage", rvh>>)]
              ELSE p
    IN  IF lvh >= 1 /\ p1.has_axis_deviation /\ RLt(m.qrs_axis, n.qrs_axis.p50) THEN
            [p1 EXCEPT !.has_lvh = TRUE,
                       !.hypertrophy_score = RMax(@, PatternScore(lvh)),
                       !.findings = Append(@, <<"LVH pattern", lvh>>)]
        ELSE IF lvh >= 2 THEN
            [p1 EXCEPT !.has_lvh = TRUE,
                       !.hypertrophy_score = RMax(@, VoltageScore(lvh)),
                       !.findings = Append(@, <<"LVH by voltage", lvh>>)]
        ELSE p1

RECURSIVE MaxOf(_)
MaxOf(s) == IF Len(s) = 1 THEN s[1] ELSE RMax(s[1], MaxOf(Tail(s)))

RECURSIVE SumOf(_)
SumOf(s) == IF Len(s) = 0 THEN Zero ELSE RAdd(s[1], SumOf(Tail(s)))

OverallAbnormalSummed(p) ==
    [p EXCEPT
        !.is_abnormal = \/ p.has_tachycardia \/ p.has_bradycardia
                        \/ p.has_axis_deviation \/ p.has_prolonged_qtc
                        \/ p.has_short_pr \/ p.has_prolonged_pr
                        \/ p.has_wide_qrs \/ p.has_rvh,
        !.abnormal_score = SumOf(<<p.tachycardia_score, p.bradycardia_score,
                                   p.axis_deviation_score, p.qtc_prolongation_score,
                                   p.conduction_abnormality_score,
                                   p.hypertrophy_score>>)]

OverallAbnormal(p) ==
    [p EXCEPT
        !.is_abnormal = \/ p.has_tachycardia \/ p.has_bradycardia
                        \/ p.has_axis_deviation \/ p.has_prolonged_qtc
                        \/ p.has_short_pr \/ p.has_prolonged_pr
                        \/ p.has_wide_qrs \/ p.has_rvh \/ p.has_lvh,
        !.abnormal_score = MaxOf(<<p.tachycardia_score, p.bradycardia_score,
                                   p.axis_deviation_score, p.qtc_prolongation_score,
                                   p.conduction_abnormality_score,
                                   p.hypertrophy_score>>)]

NormalFallbackMissing(p) == p

NormalFallback(p) ==
    IF p.findings = <<>> THEN [p EXCEPT !.findings = <<<<"Normal ECG for age">>>>]
    ELSE p

\* the prediction after the six per-measurement sections, before the summary
AfterRules(m, age) ==
    LET n == get_normals_for_age(age)
        p1 == HeartRateAnalysis(RuleBasedPrediction, m, n)
        p2 == QRSAxisAnalysis(p1, m, n)
        p3 == QTcAnalysis(p2, m, n)
        p4 == PRIntervalAnalysis(p3, m, n, age)
        p5 == QRSDurationAnalysis(p4, m, age)
        p6 == HypertrophyAnalysis(p5, m, n)
    IN  p6

apply_without_success_check(m, age) ==
    NormalFallback(OverallAbnormal(AfterRules(m, age)))

apply_rule_based_classification(m, age) ==
    IF ~m.extraction_success THEN RuleBasedPrediction
    ELSE NormalFallback(OverallAbnormal(AfterRules(m, age)))

---------------------------------------------------------------------------
(* The objects of a call.  The caller passes its ECGMeasurements by        *)
(* reference (h.arg); PEDIATRIC_NORMALS is one dict for the whole process  *)
(* (h.table).  A RuleBasedPrediction is a new object at every call; its    *)
(* findings field refers to a list object.  h.lists holds the list objects *)
(* (the index is the identity), h.held the prediction objects returned so  *)
(* far, their findings field being the identity of a list.                 *)

\* a class-level list shared by every instance
NewListShared(h) == 1

\* findings: List[str] = field(default_factory=list): a new list per instance
NewList(h) == Len(h.lists) + 1

\* every store of the body is an assignment to a field of prediction or an
\* append to prediction.findings: the appends land in the list the prediction
\* refers to, and no other object of h is written
Store(h, ref, result) ==
    [h EXCEPT !.lists = IF ref > Len(h.lists) THEN Append(h.lists, result.findings)
                        ELSE [h.lists EXCEPT ![ref] = @ \o result.findings],
              !.held = Append(h.held, [result EXCEPT !.findings = ref])]

\* what the caller reads from the k-th prediction it holds
Deref(h, k) == [h.held[k] EXCEPT !.findings = h.lists[@]]

\* apply_rule_based_classification(measurements, age_days) on the objects of h
Call(h, age) == Store(h, NewList(h), apply_rule_based_classification(h.arg, age))

---------------------------------------------------------------------------
(* The recording handed to the extractors.                                 *)
(*   shape       <<rows, columns>> of the lead-major sample array          *)
(*   fs          sampling rate in Hz                                       *)
(*   lead_names  the labels, one per lead in order                         *)
(*   profile     which waveform each row of the array holds                *)
(*   nk          NK_AVAILABLE, whether the neurokit2 import succeeded      *)
(*   peaks       what nk.ecg_clean / nk.ecg_peaks answer: raise, or the    *)
(*               R-peak sample indices (ascending, inside the signal)      *)
(*   waves       what nk.ecg_delineate answers: raise, or the per-beat     *)
(*               boundary lists; an undetected boundary is NaN             *)
(* Beat detection and delineation are an external service: its answers are *)
(* inputs, independent of the samples.                                     *)

NaN == <<"nan">>

Min2(a, b) == IF a < b THEN a ELSE b
Max2(a, b) == IF a > b THEN a ELSE b

\* one period (25 samples, beat centre at offset 0) of each waveform, in mV
Beat(name, o) ==
    CASE name = "flat"   -> Zero
      [] name = "R"      -> IF o = 0 THEN Rat(2) ELSE Zero
      [] name = "S"      -> IF o = 0 THEN Rat(-2) ELSE Zero
      [] name = "RS"     -> IF o = 0 THEN Rat(1) ELSE IF o = 2 THEN Rat(-3) ELSE Zero
      [] name = "tall"   -> IF o = 0 THEN Rat(5) ELSE Zero
      [] name = "raised" -> IF o = 0 THEN Rat(2) ELSE Half
      [] name = "sunk"   -> IF o = 0 THEN Frac(-1, 4) ELSE Rat(-1)

\* rows of the lead-major array, standard order I II III aVR aVL aVF V1..V6
Profiles == [
    upright  |-> <<"R", "R", "flat", "flat", "flat", "R", "RS", "flat", "flat", "flat", "R", "R">>,
    leftward |-> <<"R", "R", "flat", "flat", "flat", "S", "R", "flat", "flat", "flat", "R", "RS">>,
    rightward |-> <<"S", "R", "flat", "flat", "flat", "R", "tall", "flat", "flat", "flat", "R", "RS">>,
    vertical |-> <<"flat", "R", "flat", "flat", "flat", "R", "raised", "flat", "flat", "flat", "R", "sunk">>,
    flatline |-> <<"flat", "flat", "flat", "flat", "flat", "flat", "flat", "flat", "flat", "flat", "flat", "flat">> ]

\* signal[row][t], rows and samples counted from 0; beat centres at 8, 33, 58, ...
Sample(rec, row, t) == Beat(Profiles[rec.profile][row + 1], (t % 25) - 8)

\* extract(): a 1-D array becomes one lead, a 2-D array with more rows than
\* columns is transposed
NormalizedShape(shape) ==
    IF Len(shape) = 1 THEN <<1, shape[1]>>
    ELSE IF shape[1] > shape[2] THEN <<shape[2], shape[1]>>
    ELSE shape

\* an array without dimensions (shape ()) has no lead
NLeads(rec) == IF Len(rec.shape) = 0 THEN 0 ELSE NormalizedShape(rec.shape)[1]
NSamples(rec) == NormalizedShape(rec.shape)[2]

---------------------------------------------------------------------------
(* numpy and list helpers                                                  *)

Contains(names, x) == \E i \in 1..Len(names) : names[i] = x

\* list.index(x): position of the first occurrence, counted from 0
IndexOf(names, x) ==
    (CHOOSE i \in 1..Len(names) :
        names[i] = x /\ \A j \in 1..(i - 1) : names[j] # x) - 1

\* s[:k]
Take(s, k) == SubSeq(s, 1, Min2(k, Len(s)))

RECURSIVE NpMax(_)
NpMax(s) == IF Len(s) = 1 THEN s[1] ELSE RMax(s[1], NpMax(Tail(s)))

RECURSIVE NpMin(_)
NpMin(s) == IF Len(s) = 1 THEN s[1] ELSE RMin(s[1], NpMin(Tail(s)))

RECURSIVE NpSum(_)
NpSum(s) == IF Len(s) = 0 THEN Zero ELSE RAdd(s[1], NpSum(Tail(s)))

\* np.argmax: the first position of the maximum, counted from 0
NpArgMax(s) ==
    (CHOOSE i \in 1..Len(s) :
        s[i] = NpMax(s) /\ \A j \in 1..(i - 1) : s[j] # NpMax(s)) - 1

RECURSIVE Insert(_, _)
Insert(x, s) ==
    IF Len(s) = 0 THEN <<x>>
    ELSE IF RLe(x, s[1]) THEN <<x>> \o s
    ELSE <<s[1]>> \o Insert(x, Tail(s))

RECURSIVE Sorted(_)
Sorted(s) == IF Len(s) = 0 THEN <<>> ELSE Insert(s[1], Sorted(Tail(s)))

\* np.median of a non-empty list
NpMedian(s) ==
    LET t == Sorted(s)
        k == Len(s)
    IN  IF k % 2 = 1 THEN t[(k + 1) \div 2]
        ELSE RDiv(RAdd(t[k \div 2], t[k \div 2 + 1]), Rat(2))

\* np.diff
NpDiff(s) == [i \in 1..(Len(s) - 1) |-> s[i + 1] - s[i]]

\* np.sqrt, on the rationals whose root is rational
ISqrt(k) == CHOOSE r \in 0..k : r * r = k
NpSqrt(a) == <<ISqrt(a[1]), ISqrt(a[2])>>

\* np.degrees(np.arctan2(y, x)), on the directions whose angle is rational
Atan2Degrees(y, x) ==
    CASE y[1] = 0 /\ x[1] >= 0 -> Zero
      [] y[1] = 0 /\ x[1] < 0 -> Rat(180)
      [] x[1] = 0 /\ y[1] > 0 -> Rat(90)
      [] x[1] = 0 /\ y[1] < 0 -> Rat(-90)
      [] x[1] > 0 /\ y = x -> Rat(45)
      [] x[1] > 0 /\ y[1] < 0 /\ RAbs(y) = x -> Rat(-45)
      [] x[1] < 0 /\ y[1] > 0 /\ y = RAbs(x) -> Rat(135)
      [] x[1] < 0 /\ y[1] < 0 /\ y = x -> Rat(-135)

\* int(seconds * fs) for the window half-widths 0.05 s and 0.08 s
WindowSamples(hundredths, fs) == (hundredths * fs) \div 100

\* signal[row, start:end] with start = max(0, r - w), end = min(n, r + w)
Segment(rec, row, r, w) ==
    LET start == Max2(0, r - w)
        end == Min2(NSamples(rec), r + w)
    IN  [k \in 1..(end - start) |-> Sample(rec, row, start + k - 1)]

\* (b - a) / fs * 1000, in ms
Millis(a, b, fs) == RMul(RDiv(RSub(b, a), Rat(fs)), Rat(1000))

IntervalsUnchecked(ons, offs, fs, lo, hi) ==
    LET k == Min2(Len(Take(ons, 10)), Len(Take(offs, 10)))
        Valid(i) == /\ ons[i] # NaN
                    /\ offs[i] # NaN
                    /\ RLt(ons[i], offs[i])
    IN  SelectSeq([i \in 1..k |-> IF Valid(i) THEN Millis(ons[i], offs[i], fs) ELSE NaN],
                  LAMBDA v : v # NaN)

\* the sanity-filtered intervals of zip(ons[:10], offs[:10])
Intervals(ons, offs, fs, lo, hi) ==
    LET k == Min2(Len(Take(ons, 10)), Len(Take(offs, 10)))
        Valid(i) == /\ ons[i] # NaN
                    /\ offs[i] # NaN
                    /\ RLt(ons[i], offs[i])
                    /\ RLt(Rat(lo), Millis(ons[i], offs[i], fs))
                    /\ RLt(Millis(ons[i], offs[i], fs), Rat(hi))
    IN  SelectSeq([i \in 1..k |-> IF Valid(i) THEN Millis(ons[i], offs[i], fs) ELSE NaN],
                  LAMBDA v : v # NaN)

---------------------------------------------------------------------------
(* ml/models/rule_baseline.py: extract_measurements(signal, fs, lead_names) *)
(* The baseline reads the same samples sample-major: signal[t, lead].      *)

RECURSIVE FirstPreferred(_, _, _)
FirstPreferred(names, preferred, default) ==
    IF Len(preferred) = 0 THEN default
    ELSE IF Contains(names, preferred[1]) THEN IndexOf(names, preferred[1])
    ELSE FirstPreferred(names, Tail(preferred), default)

\* extract_measurements: the first of II, I, V5, V6 among the labels, else 0
rhythm_lead_idx(names) == FirstPreferred(names, <<"II", "I", "V5", "V6">>, 0)

\* _extract_measurements: the first of II, I, V5 among the labels, else 0
feature_rhythm_lead_idx(names) == FirstPreferred(names, <<"II", "I", "V5">>, 0)

\* rr_intervals = np.diff(r_peaks) / fs * 1000; the median of them
MedianRR(r_peaks, fs) ==
    LET d == NpDiff(r_peaks)
    IN  NpMedian([i \in 1..Len(d) |-> RMul(RDiv(Rat(d[i]), Rat(fs)), Rat(1000))])

\* except Exception as e: measurements.error_message = str(e); the message is
\* recorded on the measurements as they stand, extraction_success stays False
Failed(m, message) == [m EXCEPT !.error_message = message]

InsufficientBeatsBelowTwo(r_peaks) == Len(r_peaks) < 2

\* if len(r_peaks) < 3
InsufficientBeats(r_peaks) == Len(r_peaks) < 3

MeasureRate(m, r_peaks, fs) ==
    LET rr_mean == MedianRR(r_peaks, fs)
    IN  [m EXCEPT !.rr_interval = rr_mean,
                  !.heart_rate = IF RLt(Zero, rr_mean) THEN RDiv(Rat(60000), rr_mean)
                                 ELSE None]

\* the inner try around nk.ecg_delineate: a raise leaves m as it is
MeasureIntervals(m, waves, fs) ==
    IF waves.raises THEN m
    ELSE
    LET p_onsets == waves.ECG_P_Onsets
        qrs_onsets == waves.ECG_R_Onsets
        qrs_offsets == waves.ECG_R_Offsets
        t_offsets == waves.ECG_T_Offsets
        pr_intervals == IF Len(p_onsets) > 0 /\ Len(qrs_onsets) > 0
                        THEN Intervals(p_onsets, qrs_onsets, fs, 50, 400) ELSE <<>>
        qrs_durations == IF Len(qrs_onsets) > 0 /\ Len(qrs_offsets) > 0
                         THEN Intervals(qrs_onsets, qrs_offsets, fs, 20, 200) ELSE <<>>
        qt_intervals == IF Len(qrs_onsets) > 0 /\ Len(t_offsets) > 0
                        THEN Intervals(qrs_onsets, t_offsets, fs, 200, 700) ELSE <<>>
        m1 == IF pr_intervals # <<>>
              THEN [m EXCEPT !.pr_interval = NpMedian(pr_intervals)] ELSE m
        m2 == IF qrs_durations # <<>>
              THEN [m1 EXCEPT !.qrs_duration = NpMedian(qrs_durations)] ELSE m1
        m3 == IF qt_intervals # <<>>
              THEN [m2 EXCEPT !.qt_interval = NpMedian(qt_intervals)] ELSE m2
    IN  IF qt_intervals # <<>> /\ m3.rr_interval # None /\ RLt(Zero, m3.rr_interval)
        THEN [m3 EXCEPT !.qtc_bazett =
                 RDiv(m3.qt_interval, NpSqrt(RDiv(m3.rr_interval, Rat(1000))))]
        ELSE m3

\* a label whose position has no column in the array: IndexError
NoColumn(rec, names, lead) ==
    Contains(names, lead) /\ IndexOf(names, lead) >= NLeads(rec)

\* per beat, max - min of the lead over the 50 ms window; median over beats
MedianAmplitude(rec, row, r_peaks) ==
    LET beats == Take(r_peaks, 10)
        w == WindowSamples(5, rec.fs)
    IN  NpMedian([b \in 1..Len(beats) |->
            RSub(NpMax(Segment(rec, row, beats[b], w)),
                 NpMin(Segment(rec, row, beats[b], w)))])

\* the "simple quadrant method" on the two median amplitudes
MeasureAxis(m, rec, names, r_peaks) ==
    IF ~(Contains(names, "I") /\ Contains(names, "aVF")) THEN m
    ELSE
    LET amp_i == MedianAmplitude(rec, IndexOf(names, "I"), r_peaks)
        amp_avf == MedianAmplitude(rec, IndexOf(names, "aVF"), r_peaks)
    IN  [m EXCEPT !.qrs_axis =
            IF RLt(Zero, amp_i) /\ RLt(Zero, amp_avf)
                THEN Atan2Degrees(amp_avf, amp_i)
            ELSE IF RLt(amp_i, Zero) /\ RLt(Zero, amp_avf)
                THEN RAdd(Rat(90), Atan2Degrees(RAbs(amp_i), amp_avf))
            ELSE IF RLt(amp_i, Zero) /\ RLt(amp_avf, Zero)
                THEN RSub(Rat(-90), Atan2Degrees(RAbs(amp_avf), RAbs(amp_i)))
            ELSE RSub(Zero, Atan2Degrees(RAbs(amp_avf), amp_i))]

\* segment[r_idx:] for r_idx = argmax(segment)
AfterR(segment) == SubSeq(segment, NpArgMax(segment) + 1, Len(segment))

\* R and S amplitude of one lead, in mm: medians over the first 10 beats
MeasureVoltage(m, rec, names, lead, r_peaks) ==
    IF ~Contains(names, lead) THEN m
    ELSE
    LET row == IndexOf(names, lead)
        beats == Take(r_peaks, 10)
        w == WindowSamples(8, rec.fs)
        seg(b) == Segment(rec, row, beats[b], w)
        r_amps == [b \in 1..Len(beats) |-> RMul(NpMax(seg(b)), Rat(10))]
        s_amps == [b \in 1..Len(beats) |-> RMul(RAbs(NpMin(AfterR(seg(b)))), Rat(10))]
    IN  IF lead = "V1"
        THEN [m EXCEPT !.r_wave_v1 = NpMedian(r_amps), !.s_wave_v1 = NpMedian(s_amps)]
        ELSE [m EXCEPT !.r_wave_v6 = NpMedian(r_amps), !.s_wave_v6 = NpMedian(s_amps)]

\* a step of the try body: skipped once an exception is on its way to the
\* outer handler, which records the message on the measurements as they stand
AxisStep(run, rec, names, r_peaks) ==
    IF run.raised THEN run
    ELSE IF /\ Contains(names, "I") /\ Contains(names, "aVF")
            /\ (NoColumn(rec, names, "I") \/ NoColumn(rec, names, "aVF"))
        THEN [m |-> Failed(run.m, "index is out of bounds"), raised |-> TRUE]
    ELSE [m |-> MeasureAxis(run.m, rec, names, r_peaks), raised |-> FALSE]

VoltageStep(run, rec, names, lead, r_peaks) ==
    IF run.raised THEN run
    ELSE IF NoColumn(rec, names, lead)
        THEN [m |-> Failed(run.m, "index is out of bounds"), raised |-> TRUE]
    ELSE [m |-> MeasureVoltage(run.m, rec, names, lead, r_peaks), raised |-> FALSE]

extract_measurements(rec) ==
    LET names == rec.lead_names
        r_peaks == rec.peaks.r_peaks
        m0 == ECGMeasurements
    IN  IF ~rec.nk THEN [m0 EXCEPT !.error_message = "neurokit2 not available"]
        \* signal[:, rhythm_lead_idx] on an array of fewer than 2 dimensions
        ELSE IF Len(rec.shape) < 2
            THEN Failed(m0, "too many indices for array")
        ELSE IF rhythm_lead_idx(names) >= NLeads(rec)
            THEN Failed(m0, "index is out of bounds")
        ELSE IF rec.peaks.raises THEN Failed(m0, rec.peaks.message)
        ELSE IF InsufficientBeats(r_peaks)
            THEN [m0 EXCEPT !.error_message = "Insufficient R-peaks detected"]
        ELSE
        LET m1 == MeasureRate(m0, r_peaks, rec.fs)
            m2 == MeasureIntervals(m1, rec.waves, rec.fs)
            r3 == AxisStep([m |-> m2, raised |-> FALSE], rec, names, r_peaks)
            r4 == VoltageStep(r3, rec, names, "V1", r_peaks)
            r5 == VoltageStep(r4, rec, names, "V6", r_peaks)
        IN  IF r5.raised THEN r5.m
            ELSE [r5.m EXCEPT !.extraction_success = TRUE,
                              !.quality_score = RMin(Frac(Len(r_peaks), 10), One)]

---------------------------------------------------------------------------
(* ml/models/rule_features.py                                              *)
(* Feature arrays are float32 in the code; rounding a value of [0,1] to    *)
(* float32 keeps it in [0,1] and keeps 0 at 0, so slots are kept exact.    *)

Zeros(k) == [i \in 1..k |-> Zero]

\* RuleFeatures(): three zero arrays (12, 12, 6), not successful
RuleFeatures == [
    raw_features |-> Zeros(12),
    zscore_features |-> Zeros(12),
    derived_features |-> Zeros(6),
    extraction_success |-> FALSE,
    error_message |-> "",
    quality_score |-> Zero ]

to_vector(f) == f.raw_features \o f.zscore_features \o f.derived_features

normalize_value(value, min_val, max_val) ==
    IF RLe(max_val, min_val) THEN Half
    ELSE RMax(Zero, RMin(One, RDiv(RSub(value, min_val), RSub(max_val, min_val))))

compute_zscore_full_range(value, normal_range) ==
    LET p2 == normal_range.p2
        p50 == normal_range.p50
        p98 == normal_range.p98
    IN  IF p98 = p2 THEN Zero
        ELSE RDiv(RMul(Rat(4), RSub(value, p50)), RSub(p98, p2))

compute_zscore(value, normal_range) ==
    LET p2 == normal_range.p2
        p50 == normal_range.p50
        p98 == normal_range.p98
    IN  IF RLe(value, p50)
        THEN IF p50 = p2 THEN Zero
             ELSE RDiv(RMul(Rat(-2), RSub(p50, value)), RSub(p50, p2))
        ELSE IF p98 = p50 THEN Zero
             ELSE RDiv(RMul(Rat(2), RSub(value, p50)), RSub(p98, p50))

RAW_RANGES == [
    heart_rate |-> <<30, 220>>,
    rr_interval |-> <<270, 2000>>,
    pr_interval |-> <<50, 300>>,
    qrs_duration |-> <<30, 180>>,
    qt_interval |-> <<200, 600>>,
    qtc_bazett |-> <<300, 600>>,
    qrs_axis |-> <<-180, 180>>,
    r_wave_v1 |-> <<0, 40>>,
    s_wave_v1 |-> <<0, 40>>,
    r_wave_v6 |-> <<0, 40>>,
    s_wave_v6 |-> <<0, 40>> ]

\* the measurements dict of _extract_measurements; a key that is missing or
\* holds None is None here
MeasurementDict == [
    heart_rate |-> None, rr_interval |-> None, pr_interval |-> None,
    qrs_duration |-> None, qt_interval |-> None, qtc_bazett |-> None,
    qrs_axis |-> None,
    r_wave_v1 |-> None, s_wave_v1 |-> None,
    r_wave_v6 |-> None, s_wave_v6 |-> None,
    quality |-> None ]

\* median, over the first 10 beats, of the sum of the lead over the 50 ms window
MedianNetDeflection(rec, row, r_peaks) ==
    LET beats == Take(r_peaks, 10)
        w == WindowSamples(5, rec.fs)
    IN  NpMedian([b \in 1..Len(beats) |-> NpSum(Segment(rec, row, beats[b], w))])

\* QRS axis from the net deflections of I and aVF; any exception is swallowed
FeatureAxis(d, rec, names, r_peaks) ==
    IF ~(Contains(names, "I") /\ Contains(names, "aVF")) THEN d
    ELSE IF NoColumn(rec, names, "I") \/ NoColumn(rec, names, "aVF") THEN d
    ELSE [d EXCEPT !.qrs_axis =
            Atan2Degrees(MedianNetDeflection(rec, IndexOf(names, "aVF"), r_peaks),
                         MedianNetDeflection(rec, IndexOf(names, "I"), r_peaks))]

\* R and S amplitude of one lead, both floored at 0; any exception is swallowed
FeatureVoltage(d, rec, names, lead, r_peaks) ==
    IF ~Contains(names, lead) THEN d
    ELSE IF NoColumn(rec, names, lead) THEN d
    ELSE
    LET row == IndexOf(names, lead)
        beats == Take(r_peaks, 10)
        w == WindowSamples(8, rec.fs)
        seg(b) == Segment(rec, row, beats[b], w)
        r_amps == [b \in 1..Len(beats) |->
                      RMul(RMax(Zero, NpMax(seg(b))), Rat(10))]
        s_amps == [b \in 1..Len(beats) |->
                      RMul(RAbs(RMin(Zero, NpMin(AfterR(seg(b))))), Rat(10))]
    IN  IF lead = "V1"
        THEN [d EXCEPT !.r_wave_v1 = NpMedian(r_amps), !.s_wave_v1 = NpMedian(s_amps)]
        ELSE [d EXCEPT !.r_wave_v6 = NpMedian(r_amps), !.s_wave_v6 = NpMedian(s_amps)]

\* the dict of _extract_measurements once rate and intervals are measured
TimedDict(timed, n_beats) ==
    [MeasurementDict EXCEPT
        !.rr_interval = timed.rr_interval,
        !.heart_rate = timed.heart_rate,
        !.quality = RMin(Frac(n_beats, 10), One),
        !.pr_interval = timed.pr_interval,
        !.qrs_duration = timed.qrs_duration,
        !.qt_interval = timed.qt_interval,
        !.qtc_bazett = timed.qtc_bazett]

\* RuleFeatureExtractor._extract_measurements: raises, returns None, or
\* returns the dict
extract_measurements_dict(rec, names) ==
    IF feature_rhythm_lead_idx(names) >= NLeads(rec)
        THEN [outcome |-> "raise", message |-> "index is out of bounds",
              dict |-> MeasurementDict]
    ELSE IF rec.peaks.raises
        THEN [outcome |-> "raise", message |-> rec.peaks.message,
              dict |-> MeasurementDict]
    ELSE IF InsufficientBeats(rec.peaks.r_peaks)
        THEN [outcome |-> "none", message |-> "", dict |-> MeasurementDict]
    ELSE [outcome |-> "dict", message |-> "",
          dict |->
            FeatureVoltage(
              FeatureVoltage(
                FeatureAxis(
                  TimedDict(
                    MeasureIntervals(
                      MeasureRate(ECGMeasurements, rec.peaks.r_peaks, rec.fs),
                      rec.waves, rec.fs),
                    Len(rec.peaks.r_peaks)),
                  rec, names, rec.peaks.r_peaks),
                rec, names, "V1", rec.peaks.r_peaks),
              rec, names, "V6", rec.peaks.r_peaks)]

\* one raw slot: 0 while the key is missing, else the clamped rescaling
RawSlot(value, range) ==
    IF value = None THEN Zero
    ELSE normalize_value(value, Rat(range[1]), Rat(range[2]))

build_raw_features(d) == <<
    RawSlot(d.heart_rate, RAW_RANGES.heart_rate),
    RawSlot(d.rr_interval, RAW_RANGES.rr_interval),
    RawSlot(d.pr_interval, RAW_RANGES.pr_interval),
    RawSlot(d.qrs_duration, RAW_RANGES.qrs_duration),
    RawSlot(d.qt_interval, RAW_RANGES.qt_interval),
    RawSlot(d.qtc_bazett, RAW_RANGES.qtc_bazett),
    RawSlot(d.qrs_axis, RAW_RANGES.qrs_axis),
    RawSlot(d.r_wave_v1, RAW_RANGES.r_wave_v1),
    RawSlot(d.s_wave_v1, RAW_RANGES.s_wave_v1),
    RawSlot(d.r_wave_v6, RAW_RANGES.r_wave_v6),
    RawSlot(d.s_wave_v6, RAW_RANGES.s_wave_v6),
    IF d.quality = None THEN Zero ELSE d.quality >>

\* np.clip(z, -4, 4)
NpClip(z, lo, hi) == RMin(RMax(z, Rat(lo)), Rat(hi))

RescaledZUnclipped(value, normal_range) ==
    RDiv(RAdd(compute_zscore(value, normal_range), Rat(4)), Rat(8))

\* (clip(z, -4, 4) + 4) / 8
RescaledZ(value, normal_range) ==
    RDiv(RAdd(NpClip(compute_zscore(value, normal_range), -4, 4), Rat(4)), Rat(8))

ZSlot(value, normal_range) ==
    IF value = None THEN Zero ELSE RescaledZ(value, normal_range)

\* dict.get(key) used as a condition: set and not 0
Truthy(value) == value # None /\ value # Zero

RatioSlot(r, sw, normal_range) ==
    IF Truthy(r) /\ Truthy(sw)
    THEN RescaledZ(RDiv(r, RMax(sw, Frac(1, 10))), normal_range)
    ELSE Zero

build_zscore_features(d, n) == <<
    ZSlot(d.heart_rate, n.heart_rate),
    ZSlot(d.pr_interval, n.pr_interval),
    ZSlot(d.qrs_duration, n.qrs_duration),
    ZSlot(d.qtc_bazett, n.qtc_bazett),
    ZSlot(d.qrs_axis, n.qrs_axis),
    ZSlot(d.r_wave_v1, n.r_wave_v1),
    ZSlot(d.s_wave_v1, n.s_wave_v1),
    ZSlot(d.r_wave_v6, n.r_wave_v6),
    ZSlot(d.s_wave_v6, n.s_wave_v6),
    RatioSlot(d.r_wave_v1, d.s_wave_v1, n.rs_ratio_v1),
    RatioSlot(d.r_wave_v6, d.s_wave_v6, n.rs_ratio_v6),
    Zero >>

Flag(b) == IF b THEN One ELSE Zero

build_derived_features(d, n) ==
    LET tachy == d.heart_rate # None /\ RLt(n.heart_rate.p98, d.heart_rate)
        brady == d.heart_rate # None /\ RLt(d.heart_rate, n.heart_rate.p2)
        axis == d.qrs_axis # None /\ (\/ RLt(d.qrs_axis, n.qrs_axis.p2)
                                      \/ RLt(n.qrs_axis.p98, d.qrs_axis))
        qtc == d.qtc_bazett # None /\ RLt(Rat(460), d.qtc_bazett)
        wide == d.qrs_duration # None /\ RLt(n.qrs_duration.p98, d.qrs_duration)
    IN  <<Flag(tachy), Flag(brady), Flag(axis), Flag(qtc), Flag(wide),
          Flag(tachy \/ brady \/ axis \/ qtc \/ wide)>>

DefaultLeadNames ==
    <<"I", "II", "III", "aVR", "aVL", "aVF", "V1", "V2", "V3", "V4", "V5", "V6">>

FeaturesFromFlagUnset(got, n) ==
    IF got.outcome = "raise"
        THEN [RuleFeatures EXCEPT !.error_message = got.message]
    ELSE IF got.outcome = "none"
        THEN [RuleFeatures EXCEPT !.error_message = "Measurement extraction failed"]
    ELSE [RuleFeatures EXCEPT
             !.raw_features = build_raw_features(got.dict),
             !.zscore_features = build_zscore_features(got.dict, n),
             !.derived_features = build_derived_features(got.dict, n),
             !.quality_score = got.dict.quality]

\* extract() from the returned measurements on: the error paths, or the
\* three feature groups, the success flag and the quality score
FeaturesFrom(got, n) ==
    IF got.outcome = "raise"
        THEN [RuleFeatures EXCEPT !.error_message = got.message]
    ELSE IF got.outcome = "none"
        THEN [RuleFeatures EXCEPT !.error_message = "Measurement extraction failed"]
    ELSE [RuleFeatures EXCEPT
             !.raw_features = build_raw_features(got.dict),
             !.zscore_features = build_zscore_features(got.dict, n),
             !.derived_features = build_derived_features(got.dict, n),
             !.extraction_success = TRUE,
             !.quality_score = got.dict.quality]

\* the features as they stand when the try body of extract() has run
ExtractBody(rec, age, names) ==
    FeaturesFrom(extract_measurements_dict(rec, names), get_normals_for_age(age))

\* an exception that leaves the function: the caller receives no record
Raised == [exception |-> TRUE]

\* the shape normalisation stands before the try: signal.shape[0] of an array
\* without dimensions is an IndexError, and n_leads, n_samples = signal.shape
\* of an array of 3 dimensions or more a ValueError
ExtractRaises(rec) == rec.nk /\ Len(rec.shape) \notin {1, 2}

\* RuleFeatureExtractor.extract(signal, age_days, lead_names); lead_names is
\* None when the caller passes no labels
extract(rec, age, lead_names) ==
    IF ~rec.nk THEN [RuleFeatures EXCEPT !.error_message = "neurokit2 not available"]
    ELSE IF ExtractRaises(rec) THEN Raised
    ELSE ExtractBody(rec, age,
                     IF lead_names = None THEN Take(DefaultLeadNames, NLeads(rec))
                     ELSE lead_names)

\* int(x) of a float: truncation toward zero
PyInt(a) == IF a[1] >= 0 THEN a[1] \div a[2] ELSE -((-a[1]) \div a[2])

\* np.zeros((batch_size, 30))
ZeroMatrix(k) == [i \in 1..k |-> Zeros(30)]

\* features[i] = result.to_vector() if the extraction succeeded; the row
\* keeps its zeros otherwise
RowOf(result) == IF result.extraction_success THEN to_vector(result) ELSE Zeros(30)

\* the body of the loop of extract_batch_features for sample i (counted from 1)
BatchRow(signals, ages, i) ==
    RowOf(extract(signals[i], PyInt(ages[i]), None))

\* for i in range(batch_size): the rows are written one after another
RECURSIVE BatchLoop(_, _, _, _)
BatchLoop(signals, ages, rows, i) ==
    IF i > Len(signals) THEN rows
    ELSE BatchLoop(signals, ages,
                   [rows EXCEPT ![i] = BatchRow(signals, ages, i)], i + 1)

extract_batch_features(signals, ages) ==
    BatchLoop(signals, ages, ZeroMatrix(Len(signals)), 1)

\* a worker that appends its row to the rows written so far
WriteRowAppended(b, i, row) ==
    [b EXCEPT !.features[Len(b.order) + 1] = row,
              !.state[i] = "written", !.result[i] = None,
              !.order = Append(@, i)]

\* features[i] = row: the worker of sample i writes row i and no other
WriteRow(b, i, row) ==
    [b EXCEPT !.features[i] = row,
              !.state[i] = "written", !.result[i] = None,
              !.order = Append(@, i)]

---------------------------------------------------------------------------
(* The rule engine under call: a caller holds an ECGMeasurements and an    *)
(* age, calls apply_rule_based_classification and receives the prediction. *)

RatSet(S) == {Rat(i) : i \in S}
Opt(S) == {None} \cup RatSet(S)

HeartRateInputs == Opt({30, 100, 180, 250})
QtcInputs == Opt({330, 400, 448, 460, 480, 520})
PrInputs == Opt({90, 105, 150, 210})
QrsDurationInputs == Opt({80, 105, 115, 125})
AxisInputs == Opt({-100, -80, 60, 120, 190})
AmplitudeInputs == Opt({5, 35})
AgeInputs == {-1, 0, 1, 10, 100, 365, 1000, 2920, 5000, 7000}

\* rhythm and interval fields set, axis and voltages unset
RhythmInputs ==
    {[ECGMeasurements EXCEPT !.heart_rate = hr, !.qtc_bazett = qtc,
                             !.pr_interval = pr, !.qrs_duration = qrs] :
        hr \in HeartRateInputs, qtc \in QtcInputs,
        pr \in PrInputs, qrs \in QrsDurationInputs}

\* axis and voltage fields set, with or without a fast heart rate
VoltageInputs ==
    {[ECGMeasurements EXCEPT !.heart_rate = hr, !.qrs_axis = axis,
                             !.r_wave_v1 = rv1, !.s_wave_v1 = sv1,
                             !.r_wave_v6 = rv6, !.s_wave_v6 = sv6] :
        hr \in {None, Rat(250)}, axis \in AxisInputs,
        rv1 \in AmplitudeInputs, sv1 \in AmplitudeInputs,
        rv6 \in AmplitudeInputs, sv6 \in AmplitudeInputs}

MeasurementInputs ==
    {[m EXCEPT !.extraction_success = ok] :
        m \in RhythmInputs \cup VoltageInputs, ok \in BOOLEAN}

\* no recording and no batch are involved in a direct call of the rule engine
NoRecording == [
    shape |-> <<0, 0>>, fs |-> 0, lead_names |-> <<>>, profile |-> "flatline",
    nk |-> FALSE,
    peaks |-> [raises |-> FALSE, message |-> "", r_peaks |-> <<>>],
    waves |-> [raises |-> FALSE, ECG_P_Onsets |-> <<>>, ECG_R_Onsets |-> <<>>,
               ECG_R_Offsets |-> <<>>, ECG_T_Offsets |-> <<>>] ]

\* no table function under call
NoQuery == [value |-> None, normal_range |-> None, group |-> "", normals |-> None,
            label |-> "", percentile |-> None, zscore |-> None]

NoBatch == [signals |-> <<>>, ages |-> <<>>, features |-> <<>>,
            state |-> <<>>, result |-> <<>>, order |-> <<>>]

\* the process after import: the table as the module builds it, nothing passed
\* or returned yet
NoHeap == [lists |-> <<>>, held |-> <<>>, arg |-> ECGMeasurements,
           table |-> PEDIATRIC_NORMALS]

\* the server module is not involved
NoServer == [model |-> None, thresholds |-> None, request |-> None, response |-> None]

Init ==
    /\ pc = "call"
    /\ measurements \in MeasurementInputs
    /\ age_days \in AgeInputs
    /\ prediction = RuleBasedPrediction
    /\ recording = NoRecording
    /\ features = RuleFeatures
    /\ batch = NoBatch
    /\ query = NoQuery
    /\ heap = [NoHeap EXCEPT !.arg = measurements]
    /\ server = NoServer

\* prediction = apply_rule_based_classification(measurements, age_days); the
\* caller then reads its measurements object and the returned prediction
Classify ==
    /\ pc = "call"
    /\ heap' = Call(heap, age_days)
    /\ measurements' = heap'.arg
    /\ prediction' = Deref(heap', Len(heap'.held))
    /\ pc' = "returned"
    /\ UNCHANGED <<recording, age_days, features, batch, query, server>>

\* a later call while the caller still holds the first prediction: with the
\* same arguments, or with the same measurements object at another age
ClassifyAgain ==
    /\ pc = "returned"
    /\ \E age \in {age_days, 0, 5000} :
          /\ age_days' = age
          /\ heap' = Call(heap, age)
    /\ measurements' = heap'.arg
    /\ prediction' = Deref(heap', Len(heap'.held))
    /\ pc' = "again"
    /\ UNCHANGED <<recording, features, batch, query, server>>

Next == Classify \/ ClassifyAgain

Spec == Init /\ [][Next]_vars

---------------------------------------------------------------------------
(* The two extractors under call, on the same recording.                   *)

Layouts == {
    [shape |-> <<12, 500>>, lead_names |-> DefaultLeadNames],
    [shape |-> <<5, 500>>, lead_names |-> <<"I", "II", "aVF", "V1", "V6">>],
    [shape |-> <<3, 500>>, lead_names |-> <<"V1", "V2", "V6">>],
    \* more labels than columns
    [shape |-> <<2, 500>>, lead_names |-> DefaultLeadNames],
    [shape |-> <<1, 500>>, lead_names |-> <<"II", "V1">>],
    [shape |-> <<1, 500>>, lead_names |-> <<"V1", "II">>],
    \* not a 2-D array: np.array(0.0), of shape ()
    [shape |-> <<>>, lead_names |-> DefaultLeadNames] }

Beats(s) == [raises |-> FALSE, message |-> "", r_peaks |-> s]

PeakAnswers == {
    [raises |-> TRUE, message |-> "beat detection failed", r_peaks |-> <<>>],
    \* an exception raised without any text: str(e) is the empty string
    [raises |-> TRUE, message |-> "", r_peaks |-> <<>>],
    Beats(<<>>),
    Beats(<<8, 33>>),
    Beats(<<8, 33, 58>>),
    Beats(<<8, 33, 58, 158>>),
    Beats(<<8, 108, 208, 308>>),
    Beats(<<8, 233, 458>>),
    Beats(<<3, 7, 11, 15>>),
    Beats(<<8, 33, 58, 83, 108, 133, 158, 183, 208, 233, 258>>) }

Waves(p, q, r, t) ==
    [raises |-> FALSE, ECG_P_Onsets |-> p, ECG_R_Onsets |-> q,
     ECG_R_Offsets |-> r, ECG_T_Offsets |-> t]

WaveAnswers == {
    [raises |-> TRUE, ECG_P_Onsets |-> <<>>, ECG_R_Onsets |-> <<>>,
     ECG_R_Offsets |-> <<>>, ECG_T_Offsets |-> <<>>],
    \* nothing delineated
    Waves(<<>>, <<>>, <<>>, <<>>),
    \* PR 100 ms, QRS 80 ms, QT 350 ms
    Waves(<<Rat(20), Rat(45)>>, <<Rat(30), Rat(55)>>,
          <<Rat(38), Rat(63)>>, <<Rat(65), Rat(90)>>),
    \* undetected boundaries: only one QRS duration survives
    Waves(<<NaN, Rat(45)>>, <<Rat(30), NaN>>, <<Rat(38), Rat(63)>>, <<NaN, NaN>>),
    \* every interval outside its physiologic bounds
    Waves(<<Rat(0)>>, <<Rat(50)>>, <<Rat(80)>>, <<Rat(60)>>),
    \* PR 350 ms, QRS 150 ms, QT 650 ms
    Waves(<<Rat(10)>>, <<Rat(45)>>, <<Rat(60)>>, <<Rat(110)>>) }

ProfileNames == {"upright", "leftward", "rightward", "vertical", "flatline"}

Recordings ==
    {[shape |-> l.shape, fs |-> 100, lead_names |-> l.lead_names, profile |-> pr,
      nk |-> nk, peaks |-> pk, waves |-> w] :
        l \in Layouts, pr \in ProfileNames, nk \in BOOLEAN,
        pk \in PeakAnswers, w \in WaveAnswers}

ExtractAges == {10, 1000, 6000}

InitExtract ==
    /\ pc = "call"
    /\ recording \in Recordings
    /\ age_days \in ExtractAges
    /\ measurements = ECGMeasurements
    /\ prediction = RuleBasedPrediction
    /\ features = RuleFeatures
    /\ batch = NoBatch
    /\ query = NoQuery
    /\ heap = NoHeap
    /\ server = NoServer

\* measurements = extract_measurements(signal, fs, lead_names)
ExtractMeasurements ==
    /\ pc = "call"
    /\ measurements' = extract_measurements(recording)
    /\ pc' = "measured"
    /\ UNCHANGED <<recording, age_days, prediction, features, batch, query, heap, server>>

\* evaluate_baseline: a failed extraction is skipped, the others classified
ClassifyExtracted ==
    /\ pc = "measured"
    /\ measurements.extraction_success
    /\ prediction' = apply_rule_based_classification(measurements, age_days)
    /\ pc' = "returned"
    /\ UNCHANGED <<recording, measurements, age_days, features, batch, query, heap, server>>

\* features = extractor.extract(signal, age_days[, lead_names]): the record
\* is bound when the call returns, not when it raises
Bound(old, result) == IF result = Raised THEN old ELSE result

FeatureExtract ==
    /\ pc = "call"
    /\ \E lead_names \in {None, recording.lead_names} :
          features' = Bound(features, extract(recording, age_days, lead_names))
    /\ pc' = IF ExtractRaises(recording) THEN "raised" ELSE "vectorized"
    /\ UNCHANGED <<recording, measurements, age_days, prediction, batch, query, heap, server>>

NextExtract == ExtractMeasurements \/ ClassifyExtracted \/ FeatureExtract

SpecExtract == InitExtract /\ [][NextExtract]_vars

---------------------------------------------------------------------------
(* extract_batch_features(signals, ages) under call.  The loop body is a   *)
(* task per sample: result = extractor.extract(signals[i], int(ages[i])),  *)
(* then features[i] = the row.  The function itself runs the tasks one     *)
(* after another for i = 0, 1, ...; the batch contract lets workers take   *)
(* them in any order and at the same time, each writing its own row.       *)
(* batch.state[i] is "todo", "held" (result computed, row not yet written) *)
(* or "written"; batch.order lists the samples in the order of writing.    *)

MaxBatch == 2

BatchRecordings ==
    {r \in Recordings :
        /\ r.shape = <<12, 500>> /\ r.nk
        /\ r.profile = "upright"
        /\ r.waves = Waves(<<Rat(10)>>, <<Rat(45)>>, <<Rat(60)>>, <<Rat(110)>>)
        /\ r.peaks \in {[raises |-> TRUE, message |-> "beat detection failed",
                         r_peaks |-> <<>>],
                        Beats(<<8, 33>>), Beats(<<8, 108, 208, 308>>)} }

\* ages arrive as an array of numbers; a fractional age is truncated by int()
BatchAges == {Rat(10), Frac(15, 2)}

InitBatch ==
    /\ pc = "batch"
    /\ \E n \in 0..MaxBatch :
          \E signals \in [1..n -> BatchRecordings], ages \in [1..n -> BatchAges] :
              batch = [signals |-> signals, ages |-> ages,
                       features |-> ZeroMatrix(n),
                       state |-> [i \in 1..n |-> "todo"],
                       result |-> [i \in 1..n |-> None],
                       order |-> <<>>]
    /\ recording = NoRecording
    /\ age_days = 0
    /\ measurements = ECGMeasurements
    /\ prediction = RuleBasedPrediction
    /\ features = RuleFeatures
    /\ query = NoQuery
    /\ heap = NoHeap
    /\ server = NoServer

\* the samples whose result a worker holds
Held == {i \in 1..Len(batch.state) : batch.state[i] = "held"}

\* result = extractor.extract(signals[i], int(ages[i])), for a sample no
\* worker has taken yet; any number of results may be held at a time
BatchTake ==
    /\ pc = "batch"
    /\ \E i \in 1..Len(batch.signals) :
          /\ batch.state[i] = "todo"
          /\ batch' = [batch EXCEPT
                          !.state[i] = "held",
                          !.result[i] = extract(batch.signals[i], PyInt(batch.ages[i]), None)]
    /\ UNCHANGED <<pc, recording, measurements, age_days, prediction, features, query,
                   heap, server>>

\* features[i] = result.to_vector() or the zero row, by the worker of sample i
BatchWrite ==
    /\ pc = "batch"
    /\ \E i \in Held : batch' = WriteRow(batch, i, RowOf(batch.result[i]))
    /\ UNCHANGED <<pc, recording, measurements, age_days, prediction, features, query,
                   heap, server>>

\* return features, once every row is written
BatchReturn ==
    /\ pc = "batch"
    /\ \A i \in 1..Len(batch.state) : batch.state[i] = "written"
    /\ pc' = "batch_returned"
    /\ UNCHANGED <<recording, measurements, age_days, prediction, features, batch, query,
                   heap, server>>

NextBatch == BatchTake \/ BatchWrite \/ BatchReturn

SpecBatch == InitBatch /\ [][NextBatch]_vars

---------------------------------------------------------------------------
(* The table functions under call: get_normals_for_age on an age,          *)
(* classify_value, estimate_percentile and compute_zscore on a value and a *)
(* NormalRange.                                                            *)

\* every bucket's first and last day, the days next to them, a negative age
\* and an age beyond the table
QueryAges ==
    {-400, -1, 10000} \cup
    UNION {{AGE_GROUP_BOUNDS[k][2] - 1, AGE_GROUP_BOUNDS[k][2],
            AGE_GROUP_BOUNDS[k][3], AGE_GROUP_BOUNDS[k][3] + 1} :
                k \in 1..Len(AGE_GROUP_BOUNDS)}

\* rows of the table, and NormalRange values a caller can construct:
\* skewed towards either limit, with a zero-width half, of zero width, with
\* the median exactly a tenth of the width inside a limit
QueryRanges ==
    UNION {{PEDIATRIC_NORMALS[AGE_GROUP_BOUNDS[k][1]].heart_rate,
            PEDIATRIC_NORMALS[AGE_GROUP_BOUNDS[k][1]].qrs_axis,
            PEDIATRIC_NORMALS[AGE_GROUP_BOUNDS[k][1]].s_wave_v6,
            PEDIATRIC_NORMALS[AGE_GROUP_BOUNDS[k][1]].rs_ratio_v1} :
                k \in 1..Len(AGE_GROUP_BOUNDS)}
    \cup {NR(0, 1, 100), NR(0, 99, 100), NR(10, 12, 200),
          NR(10, 10, 20), NR(10, 20, 20), NR(10, 10, 10), NR(-40, -20, -10),
          NRd(0, 3, 30, 5), NR(0, 1, 10), NRd(20, 1082, 1200, 1000)}

\* the three percentiles, their neighbours, the edges of the borderline
\* zones, and values far outside
QueryValues(r) ==
    {r.p2, r.p50, r.p98,
     RSub(r.p2, One), RAdd(r.p2, One), RSub(r.p50, One), RAdd(r.p50, One),
     RSub(r.p98, One), RAdd(r.p98, One),
     RAdd(r.p2, RMul(RSub(r.p98, r.p2), Frac(1, 10))),
     RSub(r.p98, RMul(RSub(r.p98, r.p2), Frac(1, 10))),
     Rat(-1000), Rat(-180), Rat(0), Rat(1000)}

InitNormals ==
    /\ pc = "query"
    /\ age_days \in QueryAges
    /\ \E r \in QueryRanges : \E v \in QueryValues(r) :
          query = [NoQuery EXCEPT !.value = v, !.normal_range = r]
    /\ recording = NoRecording
    /\ measurements = ECGMeasurements
    /\ prediction = RuleBasedPrediction
    /\ features = RuleFeatures
    /\ batch = NoBatch
    /\ heap = NoHeap
    /\ server = NoServer

\* get_age_group(age_days), then get_normals_for_age(age_days)
GetNormalsForAge ==
    /\ pc = "query"
    /\ query' = [query EXCEPT !.group = get_age_group(age_days),
                              !.normals = get_normals_for_age(age_days)]
    /\ pc' = "grouped"
    /\ UNCHANGED <<recording, measurements, age_days, prediction, features, batch,
                   heap, server>>

\* classify_value(value, normal_range)
ClassifyValue ==
    /\ pc = "query"
    /\ query' = [query EXCEPT !.label = classify_value(query.value, query.normal_range)]
    /\ pc' = "classified"
    /\ UNCHANGED <<recording, measurements, age_days, prediction, features, batch,
                   heap, server>>

\* estimate_percentile(value, normal_range)
EstimatePercentile ==
    /\ pc = "query"
    /\ query' = [query EXCEPT
                    !.percentile = estimate_percentile(query.value, query.normal_range)]
    /\ pc' = "estimated"
    /\ UNCHANGED <<recording, measurements, age_days, prediction, features, batch,
                   heap, server>>

\* compute_zscore(value, normal_range)
ComputeZscore ==
    /\ pc = "query"
    /\ query' = [query EXCEPT !.zscore = compute_zscore(query.value, query.normal_range)]
    /\ pc' = "scored"
    /\ UNCHANGED <<recording, measurements, age_days, prediction, features, batch,
                   heap, server>>

NextNormals == GetNormalsForAge \/ ClassifyValue \/ EstimatePercentile \/ ComputeZscore

SpecNormals == InitNormals /\ [][NextNormals]_vars

---------------------------------------------------------------------------
(* ml/serve.py: the Flask application.  server.model and server.thresholds *)
(* are the module globals; a request is the JSON body of a POST /predict   *)
(* together with what the network answers when it is run:                  *)
(*   body       "json", or "none" when request.json raises                 *)
(*   signal     what data['signal'] holds: kind "missing" (no such key),   *)
(*              "text" (entries that are no numbers), "ragged" (rows of    *)
(*              unequal length) or "array", a rectangular nesting of       *)
(*              numbers of the given shape (<<>> for a bare number)        *)
(*              and rows = len(data['signal']) when it is a list           *)
(*   age_days   given "number" with its value, "absent" when the body has  *)
(*              no such key, "text" when the entry is no number            *)
(*   lead_mask  the list, None when the key is absent                      *)
(*   inference  what model(...) answers: raises, or the four probabilities *)
(* A response is the status code and the keys of the JSON body.            *)

Response(status, error, predictions, warnings) ==
    [status |-> status, error |-> error, predictions |-> predictions,
     warnings |-> warnings]

ErrorResponse(status, error) == Response(status, error, None, None)

\* np.array(data['signal'], dtype=np.float32): "raises" or the shape
np_array(signal) ==
    IF signal.kind \in {"text", "ragged"} THEN "raises" ELSE signal.shape

Age(days) == [given |-> "number", value |-> days]

get_age_warning(age) ==
    IF age <= 28 THEN <<"warning">> ELSE None

DefaultThresholds == [CHD |-> Half, Kawasaki |-> Half, Cardiomyopathy |-> Half]

\* the loop over zip(probs, CONDITION_NAMES): index 1 is skipped
condition_map == <<"CHD", "Myocarditis", "Kawasaki", "Cardiomyopathy">>

Predictions(probs, thresholds) ==
    LET kept == <<1, 3, 4>>
    IN  [k \in 1..3 |->
            [condition |-> condition_map[kept[k]],
             probability |-> probs[kept[k]],
             positive |-> RLe(thresholds[condition_map[kept[k]]], probs[kept[k]]),
             threshold |-> thresholds[condition_map[kept[k]]]]]

RECURSIVE SumInts(_)
SumInts(s) == IF Len(s) = 0 THEN 0 ELSE s[1] + SumInts(Tail(s))

Warnings(age, lead_mask) ==
    (IF get_age_warning(age) # None THEN <<get_age_warning(age)>> ELSE <<>>)
    \o (IF SumInts(lead_mask) < 12 THEN <<<<"info", SumInts(lead_mask)>>>> ELSE <<>>)

\* the body of predict after the shape check: resampling, tensors, inference
Infer(srv, req, shape, age, lead_mask) ==
    IF Len(shape) < 2 THEN ErrorResponse(500, <<"IndexError">>)
    ELSE IF shape[2] # 5000 /\ shape[2] = 0 THEN ErrorResponse(500, <<"ValueError">>)
    ELSE IF age.given = "text" THEN ErrorResponse(500, <<"TypeError">>)
    ELSE IF req.inference.raises THEN ErrorResponse(500, <<"RuntimeError">>)
    ELSE IF srv.thresholds = None THEN ErrorResponse(500, <<"AttributeError">>)
    ELSE Response(200, None, Predictions(req.inference.probs, srv.thresholds),
                  Warnings(age.value, lead_mask))

predict(srv, req) ==
    IF srv.model = None THEN ErrorResponse(500, <<"Model not loaded">>)
    ELSE IF req.body # "json" THEN ErrorResponse(500, <<"Exception">>)
    ELSE IF req.signal.kind = "missing" THEN ErrorResponse(500, <<"KeyError">>)
    ELSE IF np_array(req.signal) = "raises" THEN ErrorResponse(500, <<"ValueError">>)
    ELSE IF Len(np_array(req.signal)) = 0 THEN ErrorResponse(500, <<"IndexError">>)
    ELSE IF np_array(req.signal)[1] # 12
         THEN ErrorResponse(400, <<"Expected 12 leads, got", np_array(req.signal)[1]>>)
    ELSE Infer(srv, req, np_array(req.signal),
               IF req.age_days.given = "absent" THEN Age(365 * 5) ELSE req.age_days,
               IF req.lead_mask = None THEN [i \in 1..12 |-> 1] ELSE req.lead_mask)

\* load_model: the model object is assigned before the checkpoint is looked
\* for, the thresholds after it has been read
load_model(srv, checkpoint) ==
    IF ~checkpoint.exists THEN [srv EXCEPT !.model = <<"hybrid_model_small">>]
    ELSE [srv EXCEPT !.model = <<"hybrid_model_small">>,
                     !.thresholds = checkpoint.thresholds]

Array(shape) ==
    [kind |-> "array", shape |-> shape, rows |-> IF Len(shape) > 0 THEN shape[1] ELSE 0]

Signals ==
    {[kind |-> "missing", shape |-> <<>>, rows |-> 0],
     [kind |-> "text", shape |-> <<>>, rows |-> 12],
     [kind |-> "ragged", shape |-> <<>>, rows |-> 6],
     [kind |-> "ragged", shape |-> <<>>, rows |-> 12],
     Array(<<>>), Array(<<0>>), Array(<<5>>), Array(<<12>>),
     Array(<<6, 5000>>), Array(<<11, 10>>), Array(<<13, 5000>>),
     Array(<<12, 5000>>), Array(<<12, 2500>>), Array(<<12, 0>>)}

Requests ==
    {[body |-> "json", signal |-> sg, age_days |-> a, lead_mask |-> lm, inference |-> inf] :
        sg \in Signals,
        \* no mask, all twelve leads, a nine-lead recording
        lm \in {None, [i \in 1..12 |-> 1],
                [i \in 1..12 |-> IF i \in {3, 5, 6} THEN 0 ELSE 1]},
        a \in {Age(10), Age(1000), [given |-> "absent", value |-> 0],
               [given |-> "text", value |-> 0]},
        inf \in {[raises |-> TRUE, probs |-> <<>>],
                 [raises |-> FALSE,
                  probs |-> <<Frac(9, 10), Frac(1, 10), Half, Frac(2, 10)>>],
                 [raises |-> FALSE,
                  probs |-> <<Frac(48, 100), Frac(9, 10), Frac(1, 10), Half>>]}}
    \cup {[body |-> "none", signal |-> Array(<<12, 5000>>),
           age_days |-> Age(1000),
           lead_mask |-> None, inference |-> [raises |-> TRUE, probs |-> <<>>]]}

Checkpoints ==
    {[exists |-> FALSE, thresholds |-> DefaultThresholds],
     [exists |-> TRUE, thresholds |-> DefaultThresholds],
     [exists |-> TRUE, thresholds |-> [DefaultThresholds EXCEPT !.CHD = Frac(48, 100)]]}

InitServe ==
    /\ pc = "serving"
    /\ \E req \in Requests : server = [NoServer EXCEPT !.request = req]
    /\ recording = NoRecording
    /\ measurements = ECGMeasurements
    /\ age_days = 0
    /\ prediction = RuleBasedPrediction
    /\ features = RuleFeatures
    /\ batch = NoBatch
    /\ query = NoQuery
    /\ heap = NoHeap

LoadModel ==
    /\ pc = "serving"
    /\ server.model = None
    /\ \E checkpoint \in Checkpoints : server' = load_model(server, checkpoint)
    /\ UNCHANGED <<pc, recording, measurements, age_days, prediction, features, batch,
                   query, heap>>

Predict ==
    /\ pc = "serving"
    /\ server' = [server EXCEPT !.response = predict(server, server.request)]
    /\ pc' = "answered"
    /\ UNCHANGED <<recording, measurements, age_days, prediction, features, batch,
                   query, heap>>

NextServe == LoadModel \/ Predict

SpecServe == InitServe /\ [][NextServe]_vars

---------------------------------------------------------------------------
(* Properties of the rule engine                                           *)

Returned == pc = "returned"

Flags(p) == <<p.has_tachycardia, p.has_bradycardia, p.has_axis_deviation,
              p.has_prolonged_qtc, p.has_short_pr, p.has_prolonged_pr,
              p.has_wide_qrs, p.has_rvh, p.has_lvh>>

Scores(p) == <<p.tachycardia_score, p.bradycardia_score, p.axis_deviation_score,
               p.qtc_prolongation_score, p.conduction_abnormality_score,
               p.hypertrophy_score>>

HasFinding(p, text) == \E i \in 1..Len(p.findings) : p.findings[i][1] = text

InUnit(x) == RLe(Zero, x) /\ RLe(x, One)

\* C1: measurements with extraction_success false give, at every age and
\* whatever the other fields hold, a prediction with every flag false, every
\* score 0.0 and an empty findings list (no "Normal ECG for age").
C1_FailedExtractionGivesEmptyPrediction ==
    (Returned /\ ~measurements.extraction_success) =>
        /\ ~prediction.is_abnormal
        /\ \A i \in 1..9 : ~Flags(prediction)[i]
        /\ prediction.abnormal_score = Zero
        /\ \A i \in 1..6 : Scores(prediction)[i] = Zero
        /\ prediction.findings = <<>>

\* a failed measurement set that still carries a heart rate of 250 at 10 days
C1_Witness ==
    /\ Returned
    /\ ~measurements.extraction_success
    /\ measurements.heart_rate = Rat(250)
    /\ measurements.qtc_bazett = Rat(520)
    /\ age_days = 10

\* C2: with extraction_success true the findings list is never empty, and it
\* is exactly ["Normal ECG for age"] iff no rule section appended a finding;
\* the fallback text never stands beside another finding.
C2_FindingsNeverEmpty ==
    (Returned /\ measurements.extraction_success) =>
        /\ prediction.findings # <<>>
        /\ (prediction.findings = <<<<"Normal ECG for age">>>>)
              <=> (AfterRules(measurements, age_days).findings = <<>>)
        /\ HasFinding(prediction, "Normal ECG for age") => Len(prediction.findings) = 1

\* a successful extraction with values in range: the fallback is the one finding
C2_Witness ==
    /\ Returned
    /\ measurements.extraction_success
    /\ measurements.heart_rate = Rat(100)
    /\ measurements.qtc_bazett = Rat(400)
    /\ prediction.findings = <<<<"Normal ECG for age">>>>

\* C3: is_abnormal is the OR of the nine binary findings and abnormal_score
\* is the maximum of the six individual scores (one of them, and no smaller
\* than any of them), never their sum.
C3_OverallIsOrAndMax ==
    Returned =>
        /\ prediction.is_abnormal <=> (\E i \in 1..9 : Flags(prediction)[i])
        /\ \E i \in 1..6 : prediction.abnormal_score = Scores(prediction)[i]
        /\ \A i \in 1..6 : RLe(Scores(prediction)[i], prediction.abnormal_score)

\* two sections scored differently, and only LVH is set
C3_Witness ==
    /\ Returned
    /\ prediction.has_tachycardia
    /\ prediction.has_lvh
    /\ ~prediction.has_rvh
    /\ RLt(Zero, prediction.hypertrophy_score)
    /\ RLt(prediction.hypertrophy_score, prediction.tachycardia_score)
    /\ prediction.abnormal_score = prediction.tachycardia_score

\* C4: each of the seven confidence scores of a returned prediction lies in
\* [0, 1], for every combination of measurement values and age.
C4_ScoresInUnitInterval ==
    Returned =>
        /\ InUnit(prediction.abnormal_score)
        /\ \A i \in 1..6 : InUnit(Scores(prediction)[i])

\* the clamps at work: extreme rate, extreme axis and two voltage criteria
C4_Witness ==
    /\ Returned
    /\ measurements.heart_rate = Rat(250)
    /\ measurements.qrs_axis = Rat(190)
    /\ prediction.tachycardia_score = One
    /\ prediction.axis_deviation_score = One
    /\ prediction.hypertrophy_score = One

\* C5: with a heart rate present and extraction successful, tachycardia is
\* flagged exactly above the age bucket's p98 and bradycardia exactly below
\* its p2; the score is min(0.5 + relative excess or deficit, 1.0), above
\* 0.5, and a Tachycardia / Bradycardia finding is appended.
C5_HeartRateRule ==
    (Returned /\ measurements.extraction_success /\ measurements.heart_rate # None) =>
        LET hr == measurements.heart_rate
            range == get_normals_for_age(age_days).heart_rate
        IN  /\ prediction.has_tachycardia <=> RLt(range.p98, hr)
            /\ prediction.has_bradycardia <=> RLt(hr, range.p2)
            /\ prediction.has_tachycardia =>
                  /\ prediction.tachycardia_score =
                        RMin(RAdd(Half, RDiv(RSub(hr, range.p98), range.p98)), One)
                  /\ RLt(Half, prediction.tachycardia_score)
                  /\ HasFinding(prediction, "Tachycardia")
            /\ prediction.has_bradycardia =>
                  /\ prediction.bradycardia_score =
                        RMin(RAdd(Half, RDiv(RSub(range.p2, hr), range.p2)), One)
                  /\ RLt(Half, prediction.bradycardia_score)
                  /\ HasFinding(prediction, "Bradycardia")
            /\ ~prediction.has_tachycardia =>
                  /\ prediction.tachycardia_score = Zero
                  /\ ~HasFinding(prediction, "Tachycardia")
            /\ ~prediction.has_bradycardia =>
                  /\ prediction.bradycardia_score = Zero
                  /\ ~HasFinding(prediction, "Bradycardia")

\* 250 bpm at 10 days (p98 = 190): tachycardia, score 0.5 + 60/190
C5_Witness ==
    /\ Returned
    /\ measurements.extraction_success
    /\ measurements.heart_rate = Rat(250)
    /\ age_days = 10
    /\ prediction.has_tachycardia
    /\ prediction.tachycardia_score = Frac(31, 38)
    /\ HasFinding(prediction, "Tachycardia")

\* C6: with QTc present the tiers apply in order at every age: > 500 gives
\* prolonged, score 1.0, "Critically prolonged"; else > 470 gives 0.8; else
\* > 450 or above the age p98 gives 0.5; else < 340 adds only the "Short QTc"
\* finding, has_prolonged_qtc false and score 0.
C6_QtcTiers ==
    (Returned /\ measurements.extraction_success /\ measurements.qtc_bazett # None) =>
        LET qtc == measurements.qtc_bazett
            range == get_normals_for_age(age_days).qtc_bazett
        IN  IF RLt(Rat(500), qtc) THEN
                /\ prediction.has_prolonged_qtc
                /\ prediction.qtc_prolongation_score = One
                /\ HasFinding(prediction, "Critically prolonged QTc")
            ELSE IF RLt(Rat(470), qtc) THEN
                /\ prediction.has_prolonged_qtc
                /\ prediction.qtc_prolongation_score = Frac(8, 10)
            ELSE IF RLt(Rat(450), qtc) \/ RLt(range.p98, qtc) THEN
                /\ prediction.has_prolonged_qtc
                /\ prediction.qtc_prolongation_score = Half
            ELSE IF RLt(qtc, Rat(340)) THEN
                /\ ~prediction.has_prolonged_qtc
                /\ prediction.qtc_prolongation_score = Zero
                /\ HasFinding(prediction, "Short QTc")
            ELSE
                /\ ~prediction.has_prolonged_qtc
                /\ prediction.qtc_prolongation_score = Zero

\* QTc 448 is below 450 yet above the p98 (445) of a 1000-day-old: tier 0.5
C6_Witness ==
    /\ Returned
    /\ measurements.extraction_success
    /\ measurements.qtc_bazett = Rat(448)
    /\ age_days = 1000
    /\ prediction.has_prolonged_qtc
    /\ prediction.qtc_prolongation_score = Half

---------------------------------------------------------------------------
(* Properties of the extractors                                            *)

Vectorized == pc = "vectorized"

\* C7: whatever extract() returns, successful or not, to_vector() has exactly
\* 30 slots (12 raw, then 12 z-score, then 6 derived); after a successful
\* extraction every one of the 30 slots lies in [0,1], at every age and for
\* every (finite) measurement value.
C7_VectorLengthAndRange ==
    Vectorized =>
        /\ Len(features.raw_features) = 12
        /\ Len(features.zscore_features) = 12
        /\ Len(features.derived_features) = 6
        /\ Len(to_vector(features)) = 30
        /\ \A i \in 1..12 : to_vector(features)[i] = features.raw_features[i]
        /\ \A i \in 1..12 : to_vector(features)[12 + i] = features.zscore_features[i]
        /\ \A i \in 1..6 : to_vector(features)[24 + i] = features.derived_features[i]
        /\ features.extraction_success =>
              \A i \in 1..30 : InUnit(to_vector(features)[i])

\* beats 40 ms apart are a heart rate of 1500 bpm: the raw slot is clamped at
\* 1 and the z-score, far beyond +4, is clipped to the slot value 1
C7_Witness ==
    /\ Vectorized
    /\ features.extraction_success
    /\ recording.peaks.r_peaks = <<3, 7, 11, 15>>
    /\ features.raw_features[1] = One
    /\ features.zscore_features[1] = One
    /\ features.derived_features[1] = One
    /\ Len(to_vector(features)) = 30

\* C8: whenever extract() returns with extraction_success false (the library
\* missing, an exception inside extraction, or fewer than 3 beats), all 30
\* slots of the vector of the returned features are zero.
C8_FailedExtractionIsZeroVector ==
    (Vectorized /\ ~features.extraction_success) =>
        /\ Len(to_vector(features)) = 30
        /\ \A i \in 1..30 : to_vector(features)[i] = Zero

\* two beats only: measurement extraction returns None
C8_Witness ==
    /\ Vectorized
    /\ recording.nk
    /\ recording.peaks.r_peaks = <<8, 33>>
    /\ ~features.extraction_success
    /\ features.error_message = "Measurement extraction failed"
    /\ \A i \in 1..30 : to_vector(features)[i] = Zero

\* the row extract_batch_features computes for one sample, from the sample
\* and its age (truncated by int()) alone
VectorOrZeros(f) ==
    IF f.extraction_success THEN to_vector(f) ELSE [k \in 1..30 |-> Zero]

ExpectedRow(signal, age) == VectorOrZeros(extract(signal, PyInt(age), None))

\* C9: extract_batch_features fills an N x 30 matrix; whatever the order in
\* which the workers take the samples and write, and however many results
\* are held at the same time, row i once written is the vector of
\* extract(signals[i], ages[i]) when that extraction succeeds and all zeros
\* otherwise, a row not yet written is zero, and no write alters another
\* row; row i depends only on sample i (it is a function of signals[i] and
\* ages[i] alone, and equal samples have equal rows); the call returns
\* with all N rows written, failed ones included, and the matrix is the one
\* the sequential loop of extract_batch_features computes.
C9_BatchRowsIndependent ==
    (pc \in {"batch", "batch_returned"}) =>
        LET n == Len(batch.signals) IN
        /\ Len(batch.features) = n
        /\ \A k \in 1..n : Len(batch.features[k]) = 30
        /\ \A k \in 1..n :
              IF batch.state[k] = "written"
              THEN batch.features[k] = ExpectedRow(batch.signals[k], batch.ages[k])
              ELSE \A j \in 1..30 : batch.features[k][j] = Zero
        /\ (pc = "batch_returned") =>
              /\ Len(batch.order) = n
              /\ batch.features = extract_batch_features(batch.signals, batch.ages)
              /\ \A j \in 1..n, k \in 1..n :
                    (batch.signals[j] = batch.signals[k]
                        /\ PyInt(batch.ages[j]) = PyInt(batch.ages[k]))
                    => batch.features[j] = batch.features[k]

\* a batch of two written in the order 2, 1: the first sample fails (two
\* beats), the second succeeds; only the second row is filled
C9_Witness ==
    /\ pc = "batch_returned"
    /\ Len(batch.signals) = 2
    /\ batch.order = <<2, 1>>
    /\ batch.signals[1].peaks.r_peaks = <<8, 33>>
    /\ batch.signals[2].peaks.r_peaks = <<8, 108, 208, 308>>
    /\ batch.ages[1] # batch.ages[2]
    /\ \A j \in 1..30 : batch.features[1][j] = Zero
    /\ \E j \in 1..30 : batch.features[2][j] # Zero

\* the scalar measurement fields of ECGMeasurements
ScalarFields(m) ==
    <<m.heart_rate, m.rr_interval, m.pr_interval, m.qrs_duration,
      m.qt_interval, m.qtc_bazett, m.qrs_axis,
      m.r_wave_v1, m.s_wave_v1, m.r_wave_v6, m.s_wave_v6>>

FewBeats ==
    recording.nk /\ ~recording.peaks.raises /\ Len(recording.peaks.r_peaks) < 3

\* C10: when beat detection finds fewer than 3 beats, extract_measurements
\* returns extraction_success false with an error message ("Insufficient
\* R-peaks detected" when the rhythm lead could be read) and every scalar
\* measurement field still unset; RuleFeatureExtractor.extract likewise
\* returns extraction_success false with an error message and no slot filled.
C10_FewBeatsLeaveFieldsUnset ==
    /\ (pc = "measured" /\ FewBeats) =>
          /\ ~measurements.extraction_success
          /\ measurements.error_message # ""
          /\ (FirstPreferred(recording.lead_names, <<"II", "I", "V5", "V6">>, 0)
                  < NLeads(recording))
                => measurements.error_message = "Insufficient R-peaks detected"
          /\ \A i \in 1..11 : ScalarFields(measurements)[i] = None
          /\ measurements.quality_score = Zero
    /\ (Vectorized /\ FewBeats) =>
          /\ ~features.extraction_success
          /\ features.error_message # ""
          /\ features.quality_score = Zero
          /\ \A i \in 1..30 : to_vector(features)[i] = Zero

\* two beats on a 12-lead recording whose delineation would have answered
C10_Witness ==
    /\ pc = "measured"
    /\ recording.nk
    /\ recording.shape = <<12, 500>>
    /\ recording.peaks.r_peaks = <<8, 33>>
    /\ ~recording.waves.raises
    /\ ~measurements.extraction_success
    /\ measurements.error_message = "Insufficient R-peaks detected"
    /\ measurements.heart_rate = None

\* the rhythm lead extract_measurements selects is a column of the signal
BaselineReadsRhythm ==
    rhythm_lead_idx(recording.lead_names) < NLeads(recording)

\* the rhythm lead _extract_measurements selects is a row of the signal,
\* whichever way the labels were passed
VectorizerReadsRhythm ==
    \A names \in {Take(DefaultLeadNames, NLeads(recording)), recording.lead_names} :
        feature_rhythm_lead_idx(names) < NLeads(recording)

\* the beat-detection call raised, or the delineation call was reached (the
\* rhythm lead read, 3 beats or more) and raised
ServiceRaised(reads) ==
    /\ recording.nk
    /\ \/ recording.peaks.raises
       \/ /\ reads
          /\ Len(recording.peaks.r_peaks) >= 3
          /\ recording.waves.raises

\* C11: neither extractor lets an exception reach its caller, for any input
\* signal and lead labelling; whenever the beat-detection or the delineation
\* service raised, or the extraction failed for another reason, the returned
\* record has extraction_success false and a non-empty error string.
C11_EveryServiceFailureIsAFailedRecord ==
    /\ pc # "raised"
    /\ (pc = "measured") =>
          /\ ServiceRaised(BaselineReadsRhythm) =>
                ~measurements.extraction_success /\ measurements.error_message # ""
          /\ ~measurements.extraction_success => measurements.error_message # ""
    /\ Vectorized =>
          /\ ServiceRaised(VectorizerReadsRhythm) =>
                ~features.extraction_success /\ features.error_message # ""
          /\ ~features.extraction_success => features.error_message # ""

\* the delineation call raised, or no beat's (onset, offset) pair passes the
\* check: both detected, offset after onset, lo < milliseconds < hi
NoneUsable(ons, offs, lo, hi) ==
    \/ recording.waves.raises
    \/ \A i \in 1..Len(ons) :
          (i <= Len(offs) /\ i <= 10 /\ ons[i] # NaN /\ offs[i] # NaN) =>
              LET ms == ((offs[i][1] * ons[i][2] - ons[i][1] * offs[i][2]) * 1000)
                  unit == ons[i][2] * offs[i][2] * recording.fs
              IN  ms <= lo * unit \/ ms >= hi * unit

NoPR == NoneUsable(recording.waves.ECG_P_Onsets, recording.waves.ECG_R_Onsets, 50, 400)
NoQRS == NoneUsable(recording.waves.ECG_R_Onsets, recording.waves.ECG_R_Offsets, 20, 200)
NoQT == NoneUsable(recording.waves.ECG_R_Onsets, recording.waves.ECG_T_Offsets, 200, 700)

\* 3 beats or more were detected by extract_measurements / by
\* _extract_measurements: the rhythm lead was read and the call answered
BaselineBeats ==
    /\ recording.nk /\ BaselineReadsRhythm
    /\ ~recording.peaks.raises /\ Len(recording.peaks.r_peaks) >= 3

VectorizerBeats ==
    /\ recording.nk /\ VectorizerReadsRhythm
    /\ ~recording.peaks.raises /\ Len(recording.peaks.r_peaks) >= 3

\* each lead the axis and voltage steps of extract_measurements read (I with
\* aVF, V1, V6, where lead_names names them) is a column of the signal
LaterLeadsReadable ==
    /\ ~(/\ Contains(recording.lead_names, "I")
         /\ Contains(recording.lead_names, "aVF")
         /\ \/ NoColumn(recording, recording.lead_names, "I")
            \/ NoColumn(recording, recording.lead_names, "aVF"))
    /\ ~NoColumn(recording, recording.lead_names, "V1")
    /\ ~NoColumn(recording, recording.lead_names, "V6")

\* the measurement dict the vectorizer worked from, for either way of
\* passing the labels
FeatureDicts ==
    {extract_measurements_dict(recording, names).dict :
        names \in {Take(DefaultLeadNames, NLeads(recording)), recording.lead_names}}

\* extract_measurements ended successful, with rate and RR interval and
\* without the intervals that have no usable beat
BaselineHeartRateOnly ==
    /\ measurements.extraction_success
    /\ measurements.error_message = ""
    /\ measurements.heart_rate # None
    /\ measurements.rr_interval # None
    /\ NoPR => measurements.pr_interval = None
    /\ NoQRS => measurements.qrs_duration = None
    /\ NoQT => measurements.qt_interval = None /\ measurements.qtc_bazett = None

\* extract ended successful, the slots of the unset intervals still 0
VectorizerHeartRateOnly ==
    /\ features.extraction_success
    /\ features.error_message = ""
    /\ RLt(Zero, features.raw_features[12])
    /\ \A d \in FeatureDicts :
          /\ d.heart_rate # None /\ d.rr_interval # None
          /\ NoPR => d.pr_interval = None
          /\ NoQRS => d.qrs_duration = None
          /\ NoQT => d.qt_interval = None /\ d.qtc_bazett = None
    /\ NoPR => features.raw_features[3] = Zero /\ features.zscore_features[2] = Zero
    /\ NoQRS => features.raw_features[4] = Zero /\ features.zscore_features[3] = Zero
    /\ NoQT => /\ features.raw_features[5] = Zero
               /\ features.raw_features[6] = Zero
               /\ features.zscore_features[4] = Zero

\* C12 as stated: with 3 beats or more detected, when the delineation call
\* raises or every beat's interval fails its bound check, the extraction
\* still ends successful: extraction_success is true, no error is reported,
\* heart rate and RR interval are set, and each of PR, QRS duration and QT
\* without a usable beat stays unset, QTc with QT.
C12_DelineationNeverInvalidates ==
    /\ (pc = "measured" /\ BaselineBeats /\ (NoPR \/ NoQRS \/ NoQT)) =>
          BaselineHeartRateOnly
    /\ (Vectorized /\ VectorizerBeats /\ (NoPR \/ NoQRS \/ NoQT)) =>
          VectorizerHeartRateOnly

\* C12, amended: with 3 beats or more detected, when the delineation call
\* raises or every beat's interval fails its bound check, the vectorizer
\* still ends successful, and extract_measurements does when its later axis
\* and voltage steps can read their leads: extraction_success is true, no
\* error is reported, heart rate and RR interval are set, each of PR, QRS
\* duration and QT without a usable beat stays unset, QTc with QT, and the
\* slots of the unset intervals stay 0 in the feature vector.  When one of
\* I with aVF, V1, V6 is labelled at a column the signal lacks,
\* extract_measurements ends with extraction_success false and the text of
\* the IndexError, whatever the delineation did.
C12_DelineationIsOptional ==
    /\ (pc = "measured" /\ BaselineBeats /\ (NoPR \/ NoQRS \/ NoQT)) =>
          /\ LaterLeadsReadable => BaselineHeartRateOnly
          /\ ~LaterLeadsReadable =>
                /\ ~measurements.extraction_success
                /\ measurements.error_message = "index is out of bounds"
    /\ (Vectorized /\ VectorizerBeats /\ (NoPR \/ NoQRS \/ NoQT)) =>
          VectorizerHeartRateOnly

\* delineation answered, but every interval is outside its bounds (PR 500 ms,
\* QRS 300 ms, QT 100 ms): heart rate 240 bpm stands alone
C12_Witness ==
    /\ pc = "measured"
    /\ BaselineBeats /\ LaterLeadsReadable
    /\ recording.peaks.r_peaks = <<8, 33, 58>>
    /\ ~recording.waves.raises
    /\ recording.waves.ECG_R_Onsets = <<Rat(50)>>
    /\ NoPR /\ NoQRS /\ NoQT
    /\ measurements.extraction_success
    /\ measurements.heart_rate = Rat(240)
    /\ measurements.pr_interval = None
    /\ measurements.qtc_bazett = None

---------------------------------------------------------------------------
(* Properties of the table functions                                       *)

\* the buckets whose [min_days, max_days] holds the age
BucketsHolding(age) ==
    {k \in 1..Len(AGE_GROUP_BOUNDS) :
        AGE_GROUP_BOUNDS[k][2] <= age /\ age <= AGE_GROUP_BOUNDS[k][3]}

LastMaxDays == AGE_GROUP_BOUNDS[Len(AGE_GROUP_BOUNDS)][3]

\* C13: the buckets of AGE_GROUP_BOUNDS are contiguous, without gap or
\* overlap: every integer age from 0 to the last max_days lies in the
\* [min_days, max_days] of exactly one bucket.
C13_BucketsPartitionAges ==
    (pc = "grouped" /\ 0 <= age_days /\ age_days <= LastMaxDays) =>
        Cardinality(BucketsHolding(age_days)) = 1

\* C14: the buckets are listed in ascending min_days order; for an integer
\* age >= 0, get_age_group returns the first listed bucket whose
\* [min_days, max_days] holds the age, and the oldest (last) bucket exactly
\* when the age is above every max_days; get_normals_for_age returns the
\* table entry of that bucket, which exists for every bucket id.
C14_FirstHoldingBucket ==
    (pc = "grouped" /\ age_days >= 0) =>
        LET holding == BucketsHolding(age_days)
            last == Len(AGE_GROUP_BOUNDS)
        IN  /\ \A k \in 1..(last - 1) :
                  AGE_GROUP_BOUNDS[k][2] < AGE_GROUP_BOUNDS[k + 1][2]
            /\ (holding = {}) <=> (age_days > LastMaxDays)
            /\ (holding = {}) => query.group = AGE_GROUP_BOUNDS[last][1]
            /\ (holding # {}) =>
                  \E k \in holding :
                      /\ \A j \in holding : k <= j
                      /\ query.group = AGE_GROUP_BOUNDS[k][1]
            /\ \A k \in 1..last : AGE_GROUP_BOUNDS[k][1] \in DOMAIN PEDIATRIC_NORMALS
            /\ query.normals = PEDIATRIC_NORMALS[query.group]
            /\ query.normals # None
            /\ {"heart_rate", "pr_interval", "qrs_duration", "qtc_bazett", "qrs_axis",
                "r_wave_v1", "s_wave_v1", "r_wave_v6", "s_wave_v6",
                "rs_ratio_v1", "rs_ratio_v6"} \subseteq DOMAIN query.normals

\* day 1 lies in the first two buckets: the first listed one is returned
C14_Witness ==
    /\ pc = "grouped"
    /\ age_days = 1
    /\ BucketsHolding(age_days) = {1, 2}
    /\ query.group = "neonate_0_24h"
    /\ query.normals.heart_rate.p50 = Rat(145)

\* C15: an age outside the table is never rejected and resolves to the
\* nearest bucket: above the last max_days to the oldest bucket, below 0 to
\* the youngest (neonate) bucket; the normals returned are that bucket's.
C15_OutOfTableAgeGetsNearestBucket ==
    (pc = "grouped") =>
        /\ query.group \in DOMAIN PEDIATRIC_NORMALS
        /\ query.normals = PEDIATRIC_NORMALS[query.group]
        /\ (age_days > LastMaxDays) =>
              query.group = AGE_GROUP_BOUNDS[Len(AGE_GROUP_BOUNDS)][1]
        /\ (age_days < 0) => query.group = AGE_GROUP_BOUNDS[1][1]

Classified == pc = "classified"

\* C16 as stated: classify_value returns low for every value below p2 and
\* high for every value above p98, and a value exactly equal to p2 is low and
\* a value exactly equal to p98 is high, never borderline_low or
\* borderline_high.
C16_LimitsAreLowAndHigh ==
    (Classified /\ RLe(query.normal_range.p2, query.normal_range.p98)) =>
        /\ RLt(query.value, query.normal_range.p2) => query.label = "low"
        /\ RLt(query.normal_range.p98, query.value) => query.label = "high"
        /\ (query.value = query.normal_range.p2
                /\ RLt(query.normal_range.p2, query.normal_range.p98))
              => query.label = "low"
        /\ (query.value = query.normal_range.p98
                /\ RLt(query.normal_range.p2, query.normal_range.p98))
              => query.label = "high"

\* C16, amended: classify_value returns low exactly for the values below p2
\* and high exactly for the values above p98; a value exactly equal to p2 is
\* borderline_low and a value exactly equal to p98 is borderline_high (normal
\* when the range has zero width), never low or high.
C16_LimitsAreBorderline ==
    (Classified /\ RLe(query.normal_range.p2, query.normal_range.p98)) =>
        /\ RLt(query.value, query.normal_range.p2) <=> query.label = "low"
        /\ RLt(query.normal_range.p98, query.value) <=> query.label = "high"
        /\ (query.value = query.normal_range.p2
                /\ RLt(query.normal_range.p2, query.normal_range.p98))
              => query.label = "borderline_low"
        /\ (query.value = query.normal_range.p98
                /\ RLt(query.normal_range.p2, query.normal_range.p98))
              => query.label = "borderline_high"
        /\ (query.value = query.normal_range.p2
                /\ query.normal_range.p2 = query.normal_range.p98)
              => query.label = "normal"

\* a heart rate of exactly p98 (180 bpm, first day of life)
C16_Witness ==
    /\ Classified
    /\ query.normal_range = PEDIATRIC_NORMALS["neonate_0_24h"].heart_rate
    /\ query.value = query.normal_range.p98
    /\ query.label = "borderline_high"

\* a tenth of the width of the range, exactly: the width of each borderline
\* zone before rounding
ZoneWidth(r) == RMul(RSub(r.p98, r.p2), Frac(1, 10))

AtMedian ==
    /\ Classified
    /\ RLt(query.normal_range.p2, query.normal_range.p50)
    /\ RLt(query.normal_range.p50, query.normal_range.p98)
    /\ query.value = query.normal_range.p50

\* C17 as stated: for every range with p2 < p50 < p98, however skewed,
\* classify_value(p50, range) returns normal.
C17_MedianIsNormal ==
    AtMedian => query.label = "normal"

\* C17, amended: for every range with p2 < p50 < p98, classify_value(p50,
\* range) returns normal when p50 lies more than a tenth of the width p98 - p2
\* inside both limits (as in every row of the table); a median closer than
\* that to p2 is borderline_low, closer than that to p98 borderline_high.  A
\* median exactly a tenth of the width inside a limit falls to the side the
\* float product range_width * 0.1 rounds to: borderline_low for 0.6 in
\* 0..6 (6 * 0.1 > 0.6), borderline_high for 1.082 in 0.02..1.2, normal for
\* 1 in 0..10.
C17_MedianIsNormalUnlessSkewed ==
    /\ AtMedian =>
          LET r == query.normal_range IN
          /\ RLt(r.p50, RAdd(r.p2, ZoneWidth(r))) => query.label = "borderline_low"
          /\ RLt(RSub(r.p98, ZoneWidth(r)), r.p50) => query.label = "borderline_high"
          /\ (RLt(RAdd(r.p2, ZoneWidth(r)), r.p50) /\ RLt(r.p50, RSub(r.p98, ZoneWidth(r))))
                => query.label = "normal"
          /\ r.p50 = RAdd(r.p2, ZoneWidth(r))
                => query.label \in {"borderline_low", "normal"}
          /\ r.p50 = RSub(r.p98, ZoneWidth(r))
                => query.label \in {"borderline_high", "normal"}
          /\ r = NRd(0, 3, 30, 5) => query.label = "borderline_low"
          /\ r = NRd(20, 1082, 1200, 1000) => query.label = "borderline_high"
          /\ r = NR(0, 1, 10) => query.label = "normal"
    /\ AtMedian =>
          \A g \in DOMAIN PEDIATRIC_NORMALS : \A f \in DOMAIN PEDIATRIC_NORMALS[g] :
              classify_value(PEDIATRIC_NORMALS[g][f].p50, PEDIATRIC_NORMALS[g][f]) = "normal"

\* a median of 12 in the range 10..200: inside the lower zone, which ends at 29
C17_Witness ==
    /\ AtMedian
    /\ query.normal_range = NR(10, 12, 200)
    /\ query.label = "borderline_low"

Estimated == pc = "estimated"

(* C18: for every fixed range, the ranges with a zero or negative p2 included,
   estimate_percentile is monotonic non-decreasing in value, and it passes
   through the three anchors: 2 at value = p2, 50 at value = p50 and 98 at
   value = p98.  The anchors are stated for p2 < p50 < p98, where the three
   points are distinct. *)
C18_PercentileMonotonicThroughAnchors ==
    Estimated =>
        LET r == query.normal_range
        IN  /\ \A w \in QueryValues(r) :
                   RLe(w, query.value) => RLe(estimate_percentile(w, r), query.percentile)
            /\ (RLt(r.p2, r.p50) /\ RLt(r.p50, r.p98)) =>
                   /\ query.value = r.p2 => query.percentile = Rat(2)
                   /\ query.value = r.p50 => query.percentile = Rat(50)
                   /\ query.value = r.p98 => query.percentile = Rat(98)

(* C19: for every range and every value, the values far below p2 and the
   ranges with a negative or zero p2 or a zero-width half included, the result
   of estimate_percentile lies in [0, 100]. *)
C19_PercentileWithinZeroAndHundred ==
    Estimated => /\ RLe(Zero, query.percentile)
                 /\ RLe(query.percentile, Rat(100))

Scored == pc = "scored"

(* C20: compute_zscore returns 0 at value = p50; below p50 the result is
   negative and above p50 positive when that half of the range has a width,
   and 0 when the half is degenerate (p50 = p2 below, p98 = p50 above); with
   p2 < p50 it returns -2 at p2 and with p50 < p98 it returns +2 at p98, each
   half scaled by its own width. *)
C20_ZscoreAnchorsAndSign ==
    Scored =>
        LET r == query.normal_range
            v == query.value
            z == query.zscore
        IN  /\ v = r.p50 => z = Zero
            /\ RLt(v, r.p50) => IF r.p50 = r.p2 THEN z = Zero ELSE RLt(z, Zero)
            /\ RLt(r.p50, v) => IF r.p98 = r.p50 THEN z = Zero ELSE RLt(Zero, z)
            /\ (v = r.p2 /\ RLt(r.p2, r.p50)) => z = Rat(-2)
            /\ (v = r.p98 /\ RLt(r.p50, r.p98)) => z = Rat(2)
            /\ (RLt(v, r.p50) /\ r.p50 # r.p2) =>
                   RMul(z, RSub(r.p50, r.p2)) = RMul(Rat(-2), RSub(r.p50, v))
            /\ (RLt(r.p50, v) /\ r.p98 # r.p50) =>
                   RMul(z, RSub(r.p98, r.p50)) = RMul(Rat(2), RSub(v, r.p50))

C20_Witness ==
    /\ Scored
    /\ query.value = query.normal_range.p2
    /\ RLt(query.normal_range.p2, query.normal_range.p50)
    /\ RSub(query.normal_range.p50, query.normal_range.p2)
         # RSub(query.normal_range.p98, query.normal_range.p50)
    /\ query.zscore = Rat(-2)

---------------------------------------------------------------------------
(* Properties of repeated calls of the rule engine                         *)

\* a call of apply_rule_based_classification returns in this step
CallReturns == pc # pc' /\ pc' \in {"returned", "again"}

(* C21: a second call of apply_rule_based_classification with the same
   measurements object and age, reading the measurements and the normals
   table as the first call left them, returns a prediction equal to the
   first in flags, scores and findings, order included; and every call, the
   later one at the same or at another age, leaves the measurements object
   and the normals table as they were, leaves the prediction returned
   earlier as it was, its findings list included, and shares no list with
   it. *)
C21_CallsShareNoState ==
    [][/\ CallReturns =>
              /\ heap'.arg = heap.arg
              /\ measurements' = measurements
              /\ heap'.table = heap.table
              /\ heap'.table = PEDIATRIC_NORMALS
       /\ (pc = "returned" /\ pc' = "again") =>
              /\ Deref(heap', 1) = Deref(heap, 1)
              /\ heap'.held[2].findings # heap'.held[1].findings
              /\ (age_days' = age_days => Deref(heap', 2) = Deref(heap, 1))]_vars

\* two calls on one measurements object with several findings: two equal
\* predictions, each with its own list, the object and the table untouched
C21_Witness ==
    /\ pc = "again"
    /\ Len(heap.held) = 2
    /\ Deref(heap, 1).is_abnormal
    /\ Len(Deref(heap, 1).findings) >= 2
    /\ Deref(heap, 2) = Deref(heap, 1)
    /\ heap.held[2].findings # heap.held[1].findings
    /\ prediction = Deref(heap, 2)
    /\ measurements = heap.arg
    /\ heap.table = PEDIATRIC_NORMALS

---------------------------------------------------------------------------
(* Properties of the prediction server                                     *)

Answered == pc = "answered"

\* the signal of the request is a list of leads, and not of twelve
WrongLeadCount ==
    /\ server.request.body = "json"
    /\ \/ server.request.signal.kind = "ragged"
       \/ server.request.signal.kind = "array" /\ Len(server.request.signal.shape) = 2
    /\ server.request.signal.rows # 12

(* C22: once the model is loaded, a POST /predict whose signal is a list of
   leads that are not exactly twelve is answered with status 400 and a body
   with an error and without predictions; before the model is loaded every
   /predict is answered with status 500 and an error, never with
   predictions. *)
C22_WrongLeadCountIsStatus400 ==
    Answered =>
        /\ (server.model # None /\ WrongLeadCount) =>
              /\ server.response.status = 400
              /\ server.response.error # None
              /\ server.response.predictions = None
        /\ server.model = None =>
              /\ server.response.status = 500
              /\ server.response.error # None
              /\ server.response.predictions = None

---------------------------------------------------------------------------
(* Properties of the single rules                                          *)

\* a successful extraction was classified
Applied == Returned /\ measurements.extraction_success

AxisNormals == get_normals_for_age(age_days).qrs_axis

ExtremeAxis == RLt(measurements.qrs_axis, Rat(-90)) \/ RLt(Rat(180), measurements.qrs_axis)

OutsideAgeRange ==
    RLt(measurements.qrs_axis, AxisNormals.p2) \/ RLt(AxisNormals.p98, measurements.qrs_axis)

(* C23: with the QRS axis present, has_axis_deviation holds exactly when
   the axis is below the age p2, above the age p98, or outside [-90, 180];
   outside the age range and inside [-90, 180] the score is
   min(|axis - p50| / (p98 - p2), 1); below -90 or above 180 the score is
   exactly 1 and an "Extreme axis deviation" finding is present, also when
   the axis lies inside the age bucket's [p2, p98]. *)
C23_AxisDeviationRule ==
    (Applied /\ measurements.qrs_axis # None) =>
        /\ prediction.has_axis_deviation <=> (OutsideAgeRange \/ ExtremeAxis)
        /\ (OutsideAgeRange /\ ~ExtremeAxis) =>
              prediction.axis_deviation_score =
                  RMin(RDiv(RAbs(RSub(measurements.qrs_axis, AxisNormals.p50)),
                            RSub(AxisNormals.p98, AxisNormals.p2)), One)
        /\ ExtremeAxis => /\ prediction.axis_deviation_score = One
                          /\ HasFinding(prediction, "Extreme axis deviation")
        /\ ~ExtremeAxis => ~HasFinding(prediction, "Extreme axis deviation")
        /\ ~(OutsideAgeRange \/ ExtremeAxis) => prediction.axis_deviation_score = Zero

\* an axis of 190 degrees in a newborn: inside the age range 60..195, extreme
C23_Witness ==
    /\ Applied
    /\ measurements.qrs_axis # None
    /\ ExtremeAxis
    /\ ~OutsideAgeRange
    /\ prediction.has_axis_deviation
    /\ prediction.axis_deviation_score = One
    /\ HasFinding(prediction, "Extreme axis deviation")
    /\ ~HasFinding(prediction, "Right axis deviation")

\* the age-banded threshold in ms of the short-PR and the wide-QRS rule
AgeBandThreshold == IF age_days < 365 THEN 100 ELSE IF age_days < 2920 THEN 110 ELSE 120

ShortPR == RLt(measurements.pr_interval, Rat(AgeBandThreshold))

(* C24: with T(age) = 100 ms below 365 days, 110 ms below 2920 days and
   120 ms from there on: has_short_pr holds exactly when PR < T(age);
   has_prolonged_pr holds exactly when PR is not short and PR > 200 ms or PR
   is above the age p98; has_wide_qrs holds exactly when the QRS duration is
   above T(age); a flag whose measurement is unset is not set; short PR and
   prolonged PR are never both set. *)
C24_ConductionFlags ==
    Applied =>
        /\ measurements.pr_interval # None =>
              /\ prediction.has_short_pr <=> ShortPR
              /\ prediction.has_prolonged_pr <=>
                    /\ ~ShortPR
                    /\ \/ RLt(Rat(200), measurements.pr_interval)
                       \/ RLt(get_normals_for_age(age_days).pr_interval.p98,
                              measurements.pr_interval)
        /\ measurements.pr_interval = None =>
              ~prediction.has_short_pr /\ ~prediction.has_prolonged_pr
        /\ measurements.qrs_duration # None =>
              (prediction.has_wide_qrs <=>
                  RLt(Rat(AgeBandThreshold), measurements.qrs_duration))
        /\ measurements.qrs_duration = None => ~prediction.has_wide_qrs
        /\ ~(prediction.has_short_pr /\ prediction.has_prolonged_pr)

\* PR 105 ms and QRS 105 ms at 365 days: the band is 110 ms, PR is short,
\* the QRS is not wide
C24_Witness ==
    /\ Applied
    /\ age_days = 365
    /\ measurements.pr_interval = Rat(105)
    /\ measurements.qrs_duration = Rat(105)
    /\ prediction.has_short_pr
    /\ ~prediction.has_prolonged_pr
    /\ ~prediction.has_wide_qrs

\* the weight of a conduction finding when it is among the findings, else 0
Weight(text, w) == IF HasFinding(prediction, text) THEN w ELSE Zero

ConductionWeights ==
    <<Weight("Short PR interval", Frac(6, 10)),
      Weight("First-degree AV block", Frac(7, 10)),
      Weight("Borderline prolonged PR", Half),
      Weight("Wide QRS", Frac(7, 10))>>

(* C25: conduction_abnormality_score is the maximum of the weights of the
   conduction findings that fired (short PR 0.6, PR > 200 ms 0.7, age-high
   PR 0.5, wide QRS 0.7) and 0 when none fired; it never exceeds 0.7; it is
   positive exactly when has_short_pr, has_prolonged_pr or has_wide_qrs is
   set. *)
C25_ConductionScoreIsMaximum ==
    Applied =>
        /\ prediction.conduction_abnormality_score = MaxOf(ConductionWeights)
        /\ RLe(prediction.conduction_abnormality_score, Frac(7, 10))
        /\ RLt(Zero, prediction.conduction_abnormality_score) <=>
              \/ prediction.has_short_pr
              \/ prediction.has_prolonged_pr
              \/ prediction.has_wide_qrs

\* a short PR (0.6) together with a wide QRS (0.7): the score is 0.7, not 1.3
C25_Witness ==
    /\ Applied
    /\ prediction.has_short_pr
    /\ prediction.has_wide_qrs
    /\ HasFinding(prediction, "Short PR interval")
    /\ HasFinding(prediction, "Wide QRS")
    /\ prediction.conduction_abnormality_score = Frac(7, 10)

Normals == get_normals_for_age(age_days)

\* the number of amplitudes among a and b that are set and above their p98
Exceeding(a, ra, b, rb) ==
    (IF a # None /\ RLt(ra.p98, a) THEN 1 ELSE 0) + (IF b # None /\ RLt(rb.p98, b) THEN 1 ELSE 0)

RvhCount == Exceeding(measurements.r_wave_v1, Normals.r_wave_v1,
                      measurements.s_wave_v6, Normals.s_wave_v6)
LvhCount == Exceeding(measurements.r_wave_v6, Normals.r_wave_v6,
                      measurements.s_wave_v1, Normals.s_wave_v1)

\* the axis is flagged as deviated and lies on the right / left of the age median
AxisRightward ==
    prediction.has_axis_deviation /\ RLt(Normals.qrs_axis.p50, measurements.qrs_axis)
AxisLeftward ==
    prediction.has_axis_deviation /\ RLt(measurements.qrs_axis, Normals.qrs_axis.p50)

\* 0.6 + 0.2 n with the axis in support, 0.5 + 0.2 n by voltage alone, else 0
VentricleScore(count, supported) ==
    IF count >= 1 /\ supported THEN RAdd(Frac(6, 10), RMul(Frac(2, 10), Rat(count)))
    ELSE IF count >= 2 THEN RAdd(Half, RMul(Frac(2, 10), Rat(count)))
    ELSE Zero

NoAmplitude ==
    /\ measurements.r_wave_v1 = None /\ measurements.s_wave_v1 = None
    /\ measurements.r_wave_v6 = None /\ measurements.s_wave_v6 = None

\* the three parts of the rule that hold with or without an axis
HypertrophyFlagsAndScore ==
    /\ prediction.has_rvh <=> ((RvhCount >= 1 /\ AxisRightward) \/ RvhCount >= 2)
    /\ prediction.has_lvh <=> ((LvhCount >= 1 /\ AxisLeftward) \/ LvhCount >= 2)
    /\ prediction.hypertrophy_score =
          RMax(VentricleScore(RvhCount, AxisRightward),
               VentricleScore(LvhCount, AxisLeftward))

(* C26 as stated: with the RVH criteria R(V1) > p98 and S(V6) > p98 and the
   LVH criteria R(V6) > p98 and S(V1) > p98: has_rvh holds exactly when at
   least one RVH criterion is met with the axis flagged as deviated and above
   the age p50, or at least two are met; has_lvh likewise with the axis below
   the age p50; hypertrophy_score is 0.6 + 0.2 n with axis support and
   0.5 + 0.2 n by voltage alone, the maximum over both ventricles; and with
   no voltage amplitude or no axis available the rule does not fire: neither
   flag is set and the score stays 0. *)
C26_NothingFiresWithoutAxis ==
    Applied =>
        /\ HypertrophyFlagsAndScore
        /\ (NoAmplitude \/ measurements.qrs_axis = None) =>
              /\ ~prediction.has_rvh /\ ~prediction.has_lvh
              /\ prediction.hypertrophy_score = Zero

(* C26, amended: the flags and the score as above; with no voltage amplitude
   available the rule does not fire (no flag, score 0); with no axis
   available the axis-supported case is never taken and nothing fails, but
   two criteria of a ventricle still fire the rule by voltage alone: the
   flag is set, the finding is "RVH by voltage" / "LVH by voltage" and the
   score is 0.5 + 0.2 n. *)
C26_HypertrophyRule ==
    Applied =>
        /\ HypertrophyFlagsAndScore
        /\ NoAmplitude => /\ ~prediction.has_rvh /\ ~prediction.has_lvh
                          /\ prediction.hypertrophy_score = Zero
        /\ measurements.qrs_axis = None =>
              /\ ~HasFinding(prediction, "RVH pattern")
              /\ ~HasFinding(prediction, "LVH pattern")
              /\ prediction.has_rvh <=> RvhCount >= 2
              /\ prediction.has_lvh <=> LvhCount >= 2
              /\ prediction.has_rvh => HasFinding(prediction, "RVH by voltage")
              /\ prediction.has_lvh => HasFinding(prediction, "LVH by voltage")
              /\ prediction.hypertrophy_score =
                    RMax(VentricleScore(RvhCount, FALSE), VentricleScore(LvhCount, FALSE))

\* no axis measured, both RVH criteria met: RVH by voltage alone, score 0.9
C26_Witness ==
    /\ Applied
    /\ measurements.qrs_axis = None
    /\ RvhCount = 2
    /\ prediction.has_rvh
    /\ HasFinding(prediction, "RVH by voltage")
    /\ prediction.hypertrophy_score = Frac(9, 10)

---------------------------------------------------------------------------
(* Properties relating the two extractors                                  *)

\* what _extract_measurements makes of the recording under its own labels
FeatureSide == extract_measurements_dict(recording, recording.lead_names)

\* both extractors measured the recording
BothMeasured ==
    /\ pc = "measured"
    /\ measurements.extraction_success
    /\ FeatureSide.outcome = "dict"

(* C27: on every recording and lead labelling, _extract_measurements of the
   feature vectorizer and extract_measurements select the same rhythm lead,
   and when both measure the recording they derive the same QRS axis and the
   same R and S amplitudes of V1 and V6 from the same beats. *)
C27_ExtractorsAgree ==
    pc = "measured" =>
        /\ feature_rhythm_lead_idx(recording.lead_names)
              = rhythm_lead_idx(recording.lead_names)
        /\ BothMeasured =>
              /\ FeatureSide.dict.qrs_axis = measurements.qrs_axis
              /\ FeatureSide.dict.r_wave_v1 = measurements.r_wave_v1
              /\ FeatureSide.dict.s_wave_v1 = measurements.s_wave_v1
              /\ FeatureSide.dict.r_wave_v6 = measurements.r_wave_v6
              /\ FeatureSide.dict.s_wave_v6 = measurements.s_wave_v6

---------------------------------------------------------------------------
(* Properties of the z-score slots                                         *)

\* the runs of _extract_measurements the returned features can stem from:
\* with the caller's labels, or with the default labels
FeatureRuns ==
    {extract_measurements_dict(recording, names) :
        names \in {Take(DefaultLeadNames, NLeads(recording)), recording.lead_names}}

\* slot k holds the rescaled z-score of value whenever value is available
SlotHolds(k, value, range) ==
    value # None => features.zscore_features[k] = RescaledZ(value, range)

\* the ratio slot k holds the rescaled z-score of R / max(S, 0.1) whenever
\* both amplitudes are available
RatioSlotHolds(k, r, sw, range) ==
    (r # None /\ sw # None) =>
        features.zscore_features[k] = RescaledZ(RDiv(r, RMax(sw, Frac(1, 10))), range)

ZscoreSlotsHold(d, n) ==
    /\ SlotHolds(1, d.heart_rate, n.heart_rate)
    /\ SlotHolds(2, d.pr_interval, n.pr_interval)
    /\ SlotHolds(3, d.qrs_duration, n.qrs_duration)
    /\ SlotHolds(4, d.qtc_bazett, n.qtc_bazett)
    /\ SlotHolds(5, d.qrs_axis, n.qrs_axis)
    /\ SlotHolds(6, d.r_wave_v1, n.r_wave_v1)
    /\ SlotHolds(7, d.s_wave_v1, n.s_wave_v1)
    /\ SlotHolds(8, d.r_wave_v6, n.r_wave_v6)
    /\ SlotHolds(9, d.s_wave_v6, n.s_wave_v6)
    /\ RatioSlotHolds(10, d.r_wave_v1, d.s_wave_v1, n.rs_ratio_v1)
    /\ RatioSlotHolds(11, d.r_wave_v6, d.s_wave_v6, n.rs_ratio_v6)

(* C28: for a successful extraction, each of the nine z-score slots whose
   measurement is available equals (clip(z, -4, 4) + 4) / 8 with z computed
   against the norm of the age, and each R/S-ratio slot holds the rescaled
   z-score of R / max(S, 0.1) whenever both the R and the S amplitude of the
   lead are available, an S amplitude of 0 included. *)
C28_ZscoreSlotsFilled ==
    (Vectorized /\ features.extraction_success) =>
        \A run \in FeatureRuns :
            (run.outcome = "dict"
               /\ features = FeaturesFrom(run, get_normals_for_age(age_days)))
            => ZscoreSlotsHold(run.dict, get_normals_for_age(age_days))

---------------------------------------------------------------------------
(* Properties of a failed extraction                                       *)

(* C29: whenever extract_measurements returns with extraction_success
   false, whatever the cause, an exception raised in the axis or voltage
   step after the heart rate was computed included, every optional scalar
   field of the returned ECGMeasurements is unset and quality_score is 0. *)
C29_FailedExtractionIsEmpty ==
    (pc = "measured" /\ ~measurements.extraction_success) =>
        /\ \A i \in 1..Len(ScalarFields(measurements)) :
              ScalarFields(measurements)[i] = None
        /\ measurements.quality_score = Zero

---------------------------------------------------------------------------
(* Properties tying the flags to the scores                                *)

\* each score with the disjunction of the flags it belongs to
FlagScorePairs(p) == <<
    <<p.has_tachycardia, p.tachycardia_score>>,
    <<p.has_bradycardia, p.bradycardia_score>>,
    <<p.has_axis_deviation, p.axis_deviation_score>>,
    <<p.has_prolonged_qtc, p.qtc_prolongation_score>>,
    <<p.has_short_pr \/ p.has_prolonged_pr \/ p.has_wide_qrs,
      p.conduction_abnormality_score>>,
    <<p.has_rvh \/ p.has_lvh, p.hypertrophy_score>> >>

(* C30: in every prediction returned, is_abnormal is true exactly when
   abnormal_score > 0: a score is positive exactly when a finding flag it
   belongs to is set; a prediction whose only finding is "Short QTc" has
   is_abnormal false; "Normal ECG for age" never goes with is_abnormal. *)
C30_AbnormalIffPositiveScore ==
    Returned =>
        /\ prediction.is_abnormal <=> RLt(Zero, prediction.abnormal_score)
        /\ \A i \in 1..Len(FlagScorePairs(prediction)) :
              FlagScorePairs(prediction)[i][1]
                  <=> RLt(Zero, FlagScorePairs(prediction)[i][2])
        /\ (Len(prediction.findings) = 1 /\ HasFinding(prediction, "Short QTc"))
              => ~prediction.is_abnormal
        /\ HasFinding(prediction, "Normal ECG for age") => ~prediction.is_abnormal

\* a QTc of 330 ms and nothing else out of range
C30_Witness ==
    /\ Applied
    /\ measurements.qtc_bazett = Rat(330)
    /\ Len(prediction.findings) = 1
    /\ HasFinding(prediction, "Short QTc")
    /\ ~prediction.is_abnormal
    /\ prediction.abnormal_score = Zero
============================================================================
